---------------------------- MODULE Spec2Model ----------------------------
(***************************************************************************)
(* Trajectory and animation engine of the Skylight web display            *)
(* (web/app.js, the trajectory-based version).                            *)
(*                                                                         *)
(* Numbers.  A JavaScript number is modelled as an extended rational      *)
(* <<n, d>> in lowest terms: d > 0 is the finite value n/d, <<1,0>> is    *)
(* +Infinity, <<-1,0>> is -Infinity and <<0,0>> is NaN.  +, -, *, / are   *)
(* exact and follow IEEE-754 for the non-finite values (signed zeros are  *)
(* not distinguished).  Math.sqrt is rounded down to 1/SqrtScale;         *)
(* Math.cos and Math.sin are tables over the headings the model feeds.    *)
(*                                                                         *)
(* Units.  Timestamps (performance.now(), the frame timestamp) are whole  *)
(* numbers of clock units of 1/TimeUnitsPerMs ms, so that                 *)
(* FRAME_INTERVAL = 1000 / TARGET_FPS ms is a whole number of units.      *)
(* Latitudes and longitudes are in grid units of 1/GridPerDegree degree,  *)
(* measured from a reference point at 60 degrees north; every formula of   *)
(* the program that uses them is invariant under that translation except  *)
(* Math.cos(startLat * PI / 180), which CosLat tabulates.                 *)
(***************************************************************************)
EXTENDS Integers, Sequences, FiniteSets, TLC

VARIABLES
    now,              \* the clock: performance.now() and the frame timestamp
    innerSize,        \* <<window.innerWidth, window.innerHeight>>
    canvasSize,       \* <<trailsCanvas.width, trailsCanvas.height>>
    planes,           \* the registry: id -> plane state (a Map)
    isConnected,      \* module-level flag
    overlayVisible,   \* overlayEl has class 'visible'
    overlayText,      \* overlayTextEl.textContent
    countText,        \* countEl.textContent
    elements,         \* the plane elements of #planes: id -> element
    lastAnimateTime,  \* module-level throttle state
    rafPending,       \* frame callbacks registered and not yet run
    inFlight,         \* fetchFlightData calls awaiting their response
    polling,          \* setInterval(fetchFlightData, ...) is installed
    lastCall,         \* the handler that ran last, with its argument
    departed,         \* history: the ids whose plane a frame has removed
    env,              \* the environment of the run, fixed at start
    probe             \* a function of the program called on its own

vars == <<now, innerSize, canvasSize, planes, isConnected,
          overlayVisible, overlayText, countText, elements,
          lastAnimateTime, rafPending, inFlight, polling, lastCall,
          departed, env, probe>>

-----------------------------------------------------------------------------
(* JavaScript numbers                                                      *)

Abs(n) == IF n < 0 THEN -n ELSE n

Sign(n) == IF n < 0 THEN -1 ELSE IF n > 0 THEN 1 ELSE 0

RECURSIVE GCD(_, _)
GCD(a, b) == IF b = 0 THEN a ELSE GCD(b, a % b)

NaN == <<0, 0>>

PosInf == <<1, 0>>

NegInf == <<-1, 0>>

\* n/d in lowest terms with a positive denominator; d = 0 gives the sign.
Frac(n, d) ==
    IF d = 0 THEN <<Sign(n), 0>>
    ELSE LET g == GCD(Abs(n), Abs(d))
         IN  <<(Sign(d) * n) \div g, Abs(d) \div g>>

R(n) == <<n, 1>>

IsNaN(x) == x = NaN

IsFinite(x) == x[2] # 0

Neg(x) == <<-x[1], x[2]>>

Add(x, y) ==
    IF IsNaN(x) \/ IsNaN(y) THEN NaN
    ELSE IF ~IsFinite(x) THEN (IF ~IsFinite(y) /\ y # x THEN NaN ELSE x)
    ELSE IF ~IsFinite(y) THEN y
    ELSE LET g == GCD(x[2], y[2])
         IN  Frac(x[1] * (y[2] \div g) + y[1] * (x[2] \div g),
                  (x[2] \div g) * y[2])

Sub(x, y) == Add(x, Neg(y))

Mul(x, y) ==
    IF IsNaN(x) \/ IsNaN(y) THEN NaN
    ELSE IF ~IsFinite(x) \/ ~IsFinite(y)
         THEN <<Sign(x[1]) * Sign(y[1]), 0>>   \* 0 * Infinity = NaN
    ELSE LET g1 == GCD(Abs(x[1]), y[2])
             g2 == GCD(Abs(y[1]), x[2])
         IN  Frac((x[1] \div g1) * (y[1] \div g2),
                  (x[2] \div g2) * (y[2] \div g1))

\* 1/x; 1/0 = +Infinity, 1/Infinity = 0.
Recip(x) ==
    IF IsNaN(x) THEN NaN
    ELSE IF ~IsFinite(x) THEN R(0)
    ELSE IF x[1] = 0 THEN PosInf
    ELSE Frac(x[2], x[1])

Div(x, y) == Mul(x, Recip(y))

\* x < y; false when either is NaN.
Lt(x, y) ==
    /\ ~IsNaN(x)
    /\ ~IsNaN(y)
    /\ x # y
    /\ IF ~IsFinite(x) THEN x = NegInf
       ELSE IF ~IsFinite(y) THEN y = PosInf
       ELSE x[1] * y[2] < y[1] * x[2]

Gt(x, y) == Lt(y, x)

\* x >= y and x <= y; false when either is NaN.
Ge(x, y) == ~IsNaN(x) /\ ~IsNaN(y) /\ ~Lt(x, y)

Le(x, y) == Ge(y, x)

\* Math.min(x, y)
MathMin(x, y) ==
    IF IsNaN(x) \/ IsNaN(y) THEN NaN ELSE IF Lt(y, x) THEN y ELSE x

\* The largest r with r * r <= n, by bisection on lo <= r < hi.
RECURSIVE ISqrtIn(_, _, _)
ISqrtIn(n, lo, hi) ==
    IF hi - lo <= 1 THEN lo
    ELSE LET mid == (lo + hi) \div 2
         IN  IF mid * mid <= n THEN ISqrtIn(n, mid, hi)
             ELSE ISqrtIn(n, lo, mid)

SqrtScale == 10

\* Math.sqrt(x), rounded down to a multiple of 1/SqrtScale.
MathSqrt(x) ==
    IF IsNaN(x) \/ x = NegInf THEN NaN
    ELSE IF x = PosInf THEN PosInf
    ELSE IF x[1] < 0 THEN NaN
    ELSE LET n == (x[1] * SqrtScale * SqrtScale) \div x[2]
         IN  Frac(ISqrtIn(n, 0, 46340), SqrtScale)


-----------------------------------------------------------------------------
(* Units and configuration                                                 *)

TARGET_FPS == 30

\* Clock units per millisecond: 1000 / TARGET_FPS ms is then 100 units.
TimeUnitsPerMs == TARGET_FPS \div 10

FRAME_INTERVAL == (1000 * TimeUnitsPerMs) \div TARGET_FPS

\* Grid units per degree of latitude or longitude.
GridPerDegree == 100 * 1000

\* config.bounds, in grid units from the reference point.
config == [bounds |-> [minLat |-> R(0), maxLat |-> R(48),
                       minLon |-> R(0), maxLon |-> R(96)]]

\* Math.cos(startLat * Math.PI / 180): the region lies at 60 degrees north
\* and spans less than a thousandth of a degree.
CosLat(lat) == IF IsFinite(lat) THEN Frac(1, 2) ELSE NaN

\* Headings the feed delivers, in degrees: due north, and the direction
\* with cosine 4/5 and sine 3/5 (36.87 degrees).
HeadingNorth == R(0)

HeadingNE == Frac(3687, 100)

\* The headings a quarter, a half and three quarters of a turn further.
HeadingEast == Add(HeadingNorth, R(90))

HeadingSE == Add(HeadingNE, R(90))

HeadingSouth == Add(HeadingNorth, R(180))

HeadingSW == Add(HeadingNE, R(180))

HeadingWest == Add(HeadingNorth, R(270))

HeadingNW == Add(HeadingNE, R(270))

\* The absent heading: undefined * Math.PI / 180 is NaN.
NoHeading == NaN

\* An angle of one turn or more, up to two, taken back into the first
\* turn: the cosine and sine of heading + 90 are those of the angle one
\* turn less when the heading is 270 degrees or more.
WithinTurn(deg) == IF Ge(deg, R(360)) THEN Sub(deg, R(360)) ELSE deg

\* Math.cos(deg * Math.PI / 180) and Math.sin(deg * Math.PI / 180) for the
\* headings above, as the exact cosine and sine of the angle: where the
\* table has 0 the program computes a value below 2 / 10^16 in size.
MathCosDeg(deg) ==
    CASE WithinTurn(deg) = HeadingNorth -> R(1)
      [] WithinTurn(deg) = HeadingNE -> Frac(4, 5)
      [] WithinTurn(deg) = HeadingEast -> R(0)
      [] WithinTurn(deg) = HeadingSE -> Frac(-3, 5)
      [] WithinTurn(deg) = HeadingSouth -> R(-1)
      [] WithinTurn(deg) = HeadingSW -> Frac(-4, 5)
      [] WithinTurn(deg) = HeadingWest -> R(0)
      [] WithinTurn(deg) = HeadingNW -> Frac(3, 5)
      [] OTHER -> NaN

MathSinDeg(deg) ==
    CASE WithinTurn(deg) = HeadingNorth -> R(0)
      [] WithinTurn(deg) = HeadingNE -> Frac(3, 5)
      [] WithinTurn(deg) = HeadingEast -> R(1)
      [] WithinTurn(deg) = HeadingSE -> Frac(4, 5)
      [] WithinTurn(deg) = HeadingSouth -> R(0)
      [] WithinTurn(deg) = HeadingSW -> Frac(-3, 5)
      [] WithinTurn(deg) = HeadingWest -> R(-1)
      [] WithinTurn(deg) = HeadingNW -> Frac(-4, 5)
      [] OTHER -> NaN

ENABLE_TRAILS == TRUE

ENABLE_CURVES == TRUE

-----------------------------------------------------------------------------
(* Coordinate conversion                                                   *)

latLonToScreen(lat, lon, size) ==
    [x |-> Mul(Div(Sub(lon, config.bounds.minLon),
                   Sub(config.bounds.maxLon, config.bounds.minLon)),
               R(size[1])),
     y |-> Mul(Sub(R(1), Div(Sub(lat, config.bounds.minLat),
                             Sub(config.bounds.maxLat, config.bounds.minLat))),
               R(size[2]))]

\* A conversion back that reads y from the bottom of the window.
screenToLatLonUpright(x, y, size) ==
    [lat |-> Add(Mul(Div(y, R(size[2])),
                     Sub(config.bounds.maxLat, config.bounds.minLat)),
                 config.bounds.minLat),
     lon |-> Add(Mul(Div(x, R(size[1])),
                     Sub(config.bounds.maxLon, config.bounds.minLon)),
                 config.bounds.minLon)]

screenToLatLon(x, y, size) ==
    [lat |-> Add(Mul(Sub(R(1), Div(y, R(size[2]))),
                     Sub(config.bounds.maxLat, config.bounds.minLat)),
                 config.bounds.minLat),
     lon |-> Add(Mul(Div(x, R(size[1])),
                     Sub(config.bounds.maxLon, config.bounds.minLon)),
                 config.bounds.minLon)]

-----------------------------------------------------------------------------
(* Trajectory planner                                                      *)

\* An edge test that lets the edge tested last win.
EdgeLast(minT, crossed, t) ==
    IF crossed /\ Gt(t, R(0)) THEN t ELSE minT

\* An edge test that keeps any distance below minT, whatever the
\* direction and the sign of the distance.
EdgeNearest(minT, crossed, t) ==
    IF Lt(t, minT) THEN t ELSE minT

\* if (t > 0 && t < minT) minT = t;  -- crossed is the test on the
\* direction that guards the edge.
EdgeMin(minT, crossed, t) ==
    IF crossed /\ Gt(t, R(0)) /\ Lt(t, minT) THEN t ELSE minT

\* One edge of calculateExitPoint: t = (edge - start) / d.
EdgeStep(minT, crossed, edge, start, d) ==
    EdgeMin(minT, crossed, Div(Sub(edge, start), d))

\* minT after the top, bottom, right and left edge (lines 72-93).
ExitT(startLat, startLon, dLat, dLon) ==
    EdgeStep(
        EdgeStep(
            EdgeStep(
                EdgeStep(PosInf, Gt(dLat, R(0)), config.bounds.maxLat,
                         startLat, dLat),
                Lt(dLat, R(0)), config.bounds.minLat, startLat, dLat),
            Gt(dLon, R(0)), config.bounds.maxLon, startLon, dLon),
        Lt(dLon, R(0)), config.bounds.minLon, startLon, dLon)

MetersPerDegree == 111000

\* distanceDeg * 111000 for the two legs dy and dx of lines 100-104.
DistanceMeters(dy, dx) ==
    Mul(Div(MathSqrt(Add(Mul(dy, dy), Mul(dx, dx))), R(GridPerDegree)),
        R(MetersPerDegree))

\* The value calculateExitPoint returns for an exit point (lines 99-106).
ExitPoint(startLat, startLon, exitLat, exitLon) ==
    [lat |-> exitLat,
     lon |-> exitLon,
     distanceMeters |->
         DistanceMeters(Sub(exitLat, startLat),
                        Mul(Sub(exitLon, startLon), CosLat(startLat)))]

\* An exit point behind the start: start - direction * minT.
ExitAgainst(startLat, startLon, dLat, dLon, minT) ==
    ExitPoint(startLat, startLon,
              Sub(startLat, Mul(dLat, minT)),
              Sub(startLon, Mul(dLon, minT)))

\* Lines 95-106 for a direction vector and minT.
ExitAlong(startLat, startLon, dLat, dLon, minT) ==
    ExitPoint(startLat, startLon,
              Add(startLat, Mul(dLat, minT)),
              Add(startLon, Mul(dLon, minT)))

\* Lines 71-106 for a direction vector.
ExitToward(startLat, startLon, dLat, dLon) ==
    ExitAlong(startLat, startLon, dLat, dLon,
              ExitT(startLat, startLon, dLat, dLon))

calculateExitPoint(startLat, startLon, headingDeg) ==
    ExitToward(startLat, startLon,
               MathCosDeg(headingDeg), MathSinDeg(headingDeg))

\* A curve run backwards: the weights of p0 and p2 are exchanged.
quadraticBezierReversed(t, p0, p1, p2) ==
    Add(Add(Mul(Mul(t, t), p0),
            Mul(Mul(Mul(R(2), Sub(R(1), t)), t), p1)),
        Mul(Mul(Sub(R(1), t), Sub(R(1), t)), p2))

\* Quadratic bezier: P = (1-t)^2 P0 + 2(1-t)t P1 + t^2 P2
quadraticBezier(t, p0, p1, p2) ==
    LET mt == Sub(R(1), t)
    IN  Add(Add(Mul(Mul(mt, mt), p0), Mul(Mul(Mul(R(2), mt), t), p1)),
            Mul(Mul(t, t), p2))

\* The absent control point (null).
NoCurve == <<>>

\* Math.sqrt(dLat^2 + dLon^2) (lines 145-148).
JourneyDist(dLat, dLon) == MathSqrt(Add(Mul(dLat, dLat), Mul(dLon, dLon)))

\* The control point for a midpoint, a perpendicular direction and a
\* signed offset (lines 153-156).
ControlPoint(midLat, midLon, perp, offset) ==
    [lat |-> Add(midLat, Mul(MathCosDeg(perp), offset)),
     lon |-> Add(midLon, Mul(MathSinDeg(perp), offset))]

\* A control point displaced along the path instead of across it.
generateCurveControlAlong(startLat, startLon, endLat, endLon, heading, rnd) ==
    IF ~ENABLE_CURVES THEN NoCurve
    ELSE IF Gt(rnd[1], Frac(6, 10)) THEN NoCurve
    ELSE ControlPoint(
             Div(Add(startLat, endLat), R(2)),
             Div(Add(startLon, endLon), R(2)),
             Add(heading, R(180)),
             Mul(Mul(JourneyDist(Sub(endLat, startLat), Sub(endLon, startLon)),
                     Add(Frac(1, 10), Mul(rnd[2], Frac(15, 100)))),
                 IF Gt(rnd[3], Frac(1, 2)) THEN R(1) ELSE R(-1)))

\* rnd is the three values Math.random() returns, in call order.
generateCurveControl(startLat, startLon, endLat, endLon, heading, rnd) ==
    IF ~ENABLE_CURVES THEN NoCurve
    ELSE IF Gt(rnd[1], Frac(6, 10)) THEN NoCurve
    ELSE ControlPoint(
             Div(Add(startLat, endLat), R(2)),
             Div(Add(startLon, endLon), R(2)),
             Add(heading, R(90)),
             Mul(Mul(JourneyDist(Sub(endLat, startLat), Sub(endLon, startLon)),
                     Add(Frac(1, 10), Mul(rnd[2], Frac(15, 100)))),
                 IF Gt(rnd[3], Frac(1, 2)) THEN R(1) ELSE R(-1)))

-----------------------------------------------------------------------------
(* The feed: snapshot samples (the elements of data.planes)                *)

\* id.slice(-6).toUpperCase()
IdUpper(id) == IF id = "4ca7b1" THEN "4CA7B1" ELSE "3C6444"

\* The absent position (planeData.position is undefined).
NoPosition == <<>>

\* The absent number (planeData.velocity_mps is undefined).
Undefined == <<>>

IdA == "4ca7b1"

IdB == "3c6444"

DisplayA == [callsign |-> "BAW12", country |-> "United Kingdom",
             color |-> "#64b5f6"]

DisplayB == [callsign |-> "", country |-> "Germany", color |-> "#81c784"]

\* Position, heading and speed of a sample.  Inside the region: due north
\* at 222 m/s and at unknown speed (0), and north-east at 111 m/s.
KNorth == [position |-> [lat |-> R(8), lon |-> R(48)],
           heading |-> HeadingNorth, velocity_mps |-> R(222)]

KNorthSlow == [position |-> [lat |-> R(8), lon |-> R(48)],
               heading |-> HeadingNorth, velocity_mps |-> R(0)]

\* Inside the region, due north, with no speed reported.
KNorthNoSpeed == [position |-> [lat |-> R(8), lon |-> R(48)],
                  heading |-> HeadingNorth, velocity_mps |-> Undefined]

KNorthEast == [position |-> [lat |-> R(32), lon |-> R(60)],
               heading |-> HeadingNE, velocity_mps |-> R(111)]

\* On the top edge of the region, heading north.
KEdge == [position |-> [lat |-> R(48), lon |-> R(48)],
          heading |-> HeadingNorth, velocity_mps |-> R(222)]

\* Beyond the north-east corner of the region, heading away from it.
KOutside == [position |-> [lat |-> R(60), lon |-> R(108)],
             heading |-> HeadingNE, velocity_mps |-> R(111)]

\* No position at all.
KMissing == [position |-> NoPosition, heading |-> HeadingNorth,
             velocity_mps |-> R(222)]

Sample(id, d, k) ==
    [id |-> id, callsign |-> d.callsign, country |-> d.country,
     color |-> d.color, position |-> k.position, heading |-> k.heading,
     velocity_mps |-> k.velocity_mps]

\* What Math.random() returns to one generateCurveControl call: a straight
\* path, and a curve of the smallest offset to the left and to the right.
DrawStraight == <<Frac(9, 10), R(0), R(0)>>

DrawLeft == <<Frac(1, 2), R(0), Frac(1, 4)>>

DrawRight == <<Frac(1, 2), R(0), Frac(3, 4)>>

-----------------------------------------------------------------------------
(* fetchFlightData: reconciliation of one snapshot                         *)

\* x || 0-style test on a number: undefined, 0 and NaN are falsy.
Falsy(x) == x = Undefined \/ IsNaN(x) \/ x = R(0)

DefaultVelocityMps == 200

speedMultiplier == 3

\* The plane state object (lines 431-459).
PlaneState(planeData, t, exit, durationMs, curveControl, startScreenPos) ==
    [id |-> planeData.id,
     callsign |-> planeData.callsign,
     country |-> planeData.country,
     heading |-> planeData.heading,
     color |-> planeData.color,
     startLat |-> planeData.position.lat,
     startLon |-> planeData.position.lon,
     endLat |-> exit.lat,
     endLon |-> exit.lon,
     curveControl |-> curveControl,
     startTime |-> t,
     duration |-> Mul(durationMs, R(TimeUnitsPerMs)),
     lat |-> planeData.position.lat,
     lon |-> planeData.position.lon,
     screenPos |-> startScreenPos,
     startScreenPos |-> startScreenPos,
     progress |-> R(0),
     trailPoints |-> <<startScreenPos>>,
     lastTrailProgress |-> R(0)]

\* A plan with twice the speed-up: the duration is halved.
PlannedPlaneHalved(planeData, rnd, t, size, exit, velocityMps) ==
    PlaneState(planeData, t, exit,
               Mul(Div(Div(exit.distanceMeters, velocityMps),
                       R(2 * speedMultiplier)), R(1000)),
               generateCurveControl(planeData.position.lat,
                                    planeData.position.lon,
                                    exit.lat, exit.lon, planeData.heading, rnd),
               latLonToScreen(planeData.position.lat, planeData.position.lon,
                              size))

\* Lines 421-459 for an exit point and a speed.
PlannedPlane(planeData, rnd, t, size, exit, velocityMps) ==
    PlaneState(planeData, t, exit,
               Mul(Div(Div(exit.distanceMeters, velocityMps),
                       R(speedMultiplier)), R(1000)),
               generateCurveControl(planeData.position.lat,
                                    planeData.position.lon,
                                    exit.lat, exit.lon, planeData.heading, rnd),
               latLonToScreen(planeData.position.lat, planeData.position.lon,
                              size))

\* A new plane planned with the default speed only where no speed is
\* reported: a reported speed of 0 is used as it is.
NewPlaneZeroSpeedKept(planeData, rnd, t, size) ==
    PlannedPlane(planeData, rnd, t, size,
                 calculateExitPoint(planeData.position.lat,
                                    planeData.position.lon, planeData.heading),
                 IF planeData.velocity_mps = Undefined
                 THEN R(DefaultVelocityMps)
                 ELSE planeData.velocity_mps)

\* The plane state built for a new id (lines 412-459); t is
\* performance.now(), size the window size, rnd the random draws.
NewPlane(planeData, rnd, t, size) ==
    PlannedPlane(planeData, rnd, t, size,
                 calculateExitPoint(planeData.position.lat,
                                    planeData.position.lon, planeData.heading),
                 IF Falsy(planeData.velocity_mps) THEN R(DefaultVelocityMps)
                 ELSE planeData.velocity_mps)

\* A set that leaves the map as it is.
MapSetDropped(m, id, state) == m

\* planes.set(id, state)
MapSet(m, id, state) ==
    [k \in DOMAIN m \cup {id} |-> IF k = id THEN state ELSE m[k]]

\* An update of a tracked plane that also starts its journey over.
UpdateTrackedRestarting(state, planeData) ==
    [state EXCEPT !.callsign = planeData.callsign,
                  !.country = planeData.country,
                  !.progress = R(0),
                  !.lastTrailProgress = R(0)]

\* An update of a tracked plane that leaves its country as it is.
UpdateTrackedCallsignOnly(state, planeData) ==
    [state EXCEPT !.callsign = planeData.callsign]

\* An update of a tracked plane that plans its path again, from the
\* position the sample reports.
UpdateTrackedReplanned(state, planeData) ==
    IF planeData.position = NoPosition
    THEN [state EXCEPT !.callsign = planeData.callsign,
                       !.country = planeData.country]
    ELSE [state EXCEPT !.callsign = planeData.callsign,
                       !.country = planeData.country,
                       !.startLat = planeData.position.lat,
                       !.startLon = planeData.position.lon]

\* An update of a tracked plane that also takes the heading of the sample.
UpdateTrackedTurning(state, planeData) ==
    [state EXCEPT !.callsign = planeData.callsign,
                  !.country = planeData.country,
                  !.heading = planeData.heading]

\* The already-tracked branch (lines 404-410).
UpdateTracked(state, planeData) ==
    [state EXCEPT !.callsign = planeData.callsign,
                  !.country = planeData.country]

\* The loop over data.planes from index i on.  threw: reading
\* planeData.position.lat of a sample without position raised a TypeError,
\* which leaves the loop for the catch block.
RECURSIVE ProcessPlanes(_, _, _, _, _, _)
ProcessPlanes(m, data, i, rnds, t, size) ==
    IF i > Len(data) THEN [planes |-> m, threw |-> FALSE]
    ELSE LET planeData == data[i]
         IN  IF planeData.id \in DOMAIN m
             THEN ProcessPlanes(
                      [m EXCEPT ![planeData.id] =
                                    UpdateTracked(m[planeData.id], planeData)],
                      data, i + 1, rnds, t, size)
             ELSE IF planeData.position = NoPosition
             THEN [planes |-> m, threw |-> TRUE]
             ELSE ProcessPlanes(
                      MapSet(m, planeData.id,
                             NewPlane(planeData, rnds[i], t, size)),
                      data, i + 1, rnds, t, size)

\* The ids mentioned in a snapshot.
SampleIds(data) == {data[i].id : i \in 1..Len(data)}

\* The result r of a reconcile without the ids outside keep.
Pruned(r, keep) ==
    [planes |-> [id \in DOMAIN r.planes \cap keep |-> r.planes[id]],
     threw |-> r.threw]

\* A reconcile that also drops the ids the snapshot does not mention.
ReconcilePruning(m, data, rnds, t, size) ==
    Pruned(ProcessPlanes(m, data, 1, rnds, t, size), SampleIds(data))

\* for (const planeData of data.planes) { ... } (lines 402-463).
Reconcile(m, data, rnds, t, size) ==
    ProcessPlanes(m, data, 1, rnds, t, size)

-----------------------------------------------------------------------------
(* animate: one frame                                                      *)

linear(t) == t

\* The direction of the vector (yn, xn) of integers, in degrees: exact on
\* the axes, otherwise the vector itself in lowest terms.
Atan2Int(yn, xn) ==
    IF yn = 0 THEN (IF xn >= 0 THEN R(0) ELSE R(180))
    ELSE IF xn = 0 THEN (IF yn > 0 THEN R(90) ELSE R(-90))
    ELSE LET g == GCD(Abs(yn), Abs(xn))
         IN  <<"atan2", yn \div g, xn \div g>>

\* Math.atan2(y, x) * 180 / Math.PI
Atan2Deg(y, x) ==
    IF IsNaN(y) \/ IsNaN(x) THEN NaN
    ELSE IF ~IsFinite(y) \/ ~IsFinite(x)
    THEN Atan2Int(IF IsFinite(y) THEN 0 ELSE y[1],
                  IF IsFinite(x) THEN 0 ELSE x[1])
    ELSE Atan2Int(y[1] * x[2], x[1] * y[2])

\* Progress measured from the time origin instead of state.startTime.
ProgressSinceLoad(state, currentTime) ==
    MathMin(Div(R(currentTime), state.duration), R(1))

\* elapsed / duration clamped to 1 (lines 313-314).
Progress(state, currentTime) ==
    MathMin(Div(R(currentTime - state.startTime), state.duration), R(1))

\* A straight path run with the square of t: slow at first, then faster.
PositionAtSquared(state, t) ==
    [lat |-> Add(state.startLat,
                 Mul(Sub(state.endLat, state.startLat), Mul(t, t))),
     lon |-> Add(state.startLon,
                 Mul(Sub(state.endLon, state.startLon), Mul(t, t)))]

\* The point of the path at t: on the bezier curve or on the straight
\* line (lines 321-336, and again lines 189-195).
PositionAt(state, t) ==
    IF state.curveControl # NoCurve
    THEN [lat |-> quadraticBezier(t, state.startLat, state.curveControl.lat,
                                  state.endLat),
          lon |-> quadraticBezier(t, state.startLon, state.curveControl.lon,
                                  state.endLon)]
    ELSE [lat |-> Add(state.startLat,
                      Mul(Sub(state.endLat, state.startLat), t)),
          lon |-> Add(state.startLon,
                      Mul(Sub(state.endLon, state.startLon), t))]

\* The tangent direction from pos to the point of the curve at nextT
\* (lines 327-331).
TangentHeading(state, pos, nextT) ==
    Atan2Deg(Sub(quadraticBezier(nextT, state.startLon,
                                 state.curveControl.lon, state.endLon),
                 pos.lon),
             Sub(quadraticBezier(nextT, state.startLat,
                                 state.curveControl.lat, state.endLat),
                 pos.lat))

\* state.trailPoints.push(point) and the shift that keeps 50 points.
TrailPush(trailPoints, point) ==
    IF Len(trailPoints) + 1 > 50 THEN Tail(Append(trailPoints, point))
    ELSE Append(trailPoints, point)

\* The writes of lines 315-345 once position, heading and screen position
\* are known; push is the test of line 340.
WrittenPlane(state, progress, pos, heading, screenPos, push) ==
    [state EXCEPT
        !.progress = progress,
        !.lat = pos.lat,
        !.lon = pos.lon,
        !.heading = heading,
        !.screenPos = screenPos,
        !.trailPoints = IF push THEN TrailPush(@, screenPos) ELSE @,
        !.lastTrailProgress = IF push THEN progress ELSE @]

\* A loop body whose tangent sample is not clamped: the curve is sampled
\* at progress + 0.01 also when that is beyond 1.
PlacedPlaneUnclamped(state, size, progress, pos) ==
    WrittenPlane(state, progress, pos,
                 IF state.curveControl # NoCurve
                 THEN TangentHeading(state, pos,
                                     Add(linear(progress), Frac(1, 100)))
                 ELSE state.heading,
                 latLonToScreen(pos.lat, pos.lon, size),
                 \/ Len(state.trailPoints) = 0
                 \/ Gt(Sub(progress, state.lastTrailProgress), Frac(2, 100)))

\* A loop body that records a trail point in every frame.
PlacedPlaneRecordingAll(state, size, progress, pos) ==
    WrittenPlane(state, progress, pos,
                 IF state.curveControl # NoCurve
                 THEN TangentHeading(
                          state, pos,
                          MathMin(Add(linear(progress), Frac(1, 100)), R(1)))
                 ELSE state.heading,
                 latLonToScreen(pos.lat, pos.lon, size),
                 TRUE)

\* Lines 320-345 for a progress and the position it gives.
PlacedPlane(state, size, progress, pos) ==
    WrittenPlane(state, progress, pos,
                 IF state.curveControl # NoCurve
                 THEN TangentHeading(
                          state, pos,
                          MathMin(Add(linear(progress), Frac(1, 100)), R(1)))
                 ELSE state.heading,
                 latLonToScreen(pos.lat, pos.lon, size),
                 \/ Len(state.trailPoints) = 0
                 \/ Gt(Sub(progress, state.lastTrailProgress), Frac(2, 100)))

\* Lines 315-345 for a progress.
MovedPlane(state, size, progress) ==
    PlacedPlane(state, size, progress, PositionAt(state, linear(progress)))

\* A loop body that reads the clock itself: the plane handled second is
\* advanced to a time one clock unit later than the first.
AdvancePlaneOwnClock(state, currentTime, size) ==
    MovedPlane(state, size,
               Progress(state, IF state.id = IdA THEN currentTime
                               ELSE currentTime + 1))

\* The body of the loop over planes for one state (lines 312-350).
AdvancePlane(state, currentTime, size) ==
    MovedPlane(state, size, Progress(state, currentTime))

\* createPlaneElement / updatePlaneElement: the element of a plane after
\* the frame; old is the existing element or <<>> when there is none.
PlaneElement(old, state) ==
    [color |-> IF old = <<>> THEN state.color ELSE old.color,
     x |-> Sub(state.screenPos.x, R(24)),
     y |-> Sub(state.screenPos.y, R(24)),
     rotate |-> state.heading,
     label |-> <<IF state.callsign # "" THEN state.callsign
                 ELSE IdUpper(state.id),
                 state.country>>]

\* Mark for removal if journey complete (line 360).
Complete(state) == Ge(state.progress, R(1))

\* A drawTrails that hides the trail up to the threshold: the trail starts
\* at the plane itself until progress exceeds 0.6.
FadedStartHidden(progress) ==
    IF Gt(progress, Frac(6, 10))
    THEN Mul(Div(Sub(progress, Frac(6, 10)), Frac(4, 10)), progress)
    ELSE progress

\* A drawTrails whose fade begins at half of the journey.
FadedStartEarly(progress) ==
    Mul(IF Gt(progress, Frac(5, 10))
        THEN Div(Sub(progress, Frac(5, 10)), Frac(4, 10))
        ELSE R(0),
        progress)

\* fadeProgress * progress (lines 182-185).
FadedStart(progress) ==
    Mul(IF Gt(progress, Frac(6, 10))
        THEN Div(Sub(progress, Frac(6, 10)), Frac(4, 10))
        ELSE R(0),
        progress)

\* drawTrails: where the visible trail of a plane starts (lines 178-185).
TrailStartProgress(state) ==
    FadedStart(IF Falsy(state.progress) THEN R(0) ELSE state.progress)

\* The screen position of a point of the path.
ScreenOf(pos, size) == latLonToScreen(pos.lat, pos.lon, size)

\* trailStart (lines 187-196).
TrailStart(state, size) ==
    ScreenOf(PositionAt(state, TrailStartProgress(state)), size)

\* All four arguments of createLinearGradient are finite.
FiniteLine(from, to) ==
    /\ IsFinite(from.x)
    /\ IsFinite(from.y)
    /\ IsFinite(to.x)
    /\ IsFinite(to.y)

\* createLinearGradient(x0, y0, x1, y1) raises a TypeError when an
\* argument is not finite; drawTrails calls it once per plane.
DrawTrailsThrows(m, size) ==
    \E id \in DOMAIN m :
        ~FiniteLine(TrailStart(m[id], size), m[id].screenPos)

\* The ids pushed to toRemove (lines 360-362).
ToRemove(m) == {id \in DOMAIN m : Complete(m[id])}

-----------------------------------------------------------------------------
(* The environment and the bounds of the model                            *)

\* The clock advances in steps of half a frame interval, up to MaxTime.
ClockStep == FRAME_INTERVAL \div 2

MaxTime == 300

\* Fetches that may be awaiting their response at once.
MaxInFlight == 2

WideWindow == <<192, 96>>

NarrowWindow == <<96, 48>>

\* An environment of a run: the snapshots (data.planes) the feed may
\* deliver, the draws Math.random() may return, the sizes the window may
\* take, and whether fetches may fail or report status 'error'.
Environment(feed, draws, sizes, faults) ==
    [feed |-> feed, draws |-> draws, sizes |-> sizes, faults |-> faults]

Environments ==
    { \* one id whose later samples disagree with the first, or lack a position
      Environment({<<Sample(IdA, DisplayA, KNorth)>>,
                   <<Sample(IdA, DisplayB, KNorthEast)>>,
                   <<Sample(IdA, DisplayB, KMissing)>>},
                  {DrawStraight, DrawLeft}, {WideWindow}, FALSE),
      \* two ids, each absent from the other's snapshot, and an empty snapshot
      Environment({<<Sample(IdA, DisplayA, KNorthEast)>>,
                   <<Sample(IdB, DisplayB, KNorth)>>,
                   <<>>},
                  {DrawStraight}, {WideWindow}, FALSE),
      \* a start on the edge of the region, heading out of it
      Environment({<<Sample(IdA, DisplayA, KEdge)>>,
                   <<Sample(IdB, DisplayB, KNorth)>>},
                  {DrawStraight}, {WideWindow}, FALSE),
      \* resizes during one curved journey, and a sample that renames it
      Environment({<<Sample(IdA, DisplayA, KNorth)>>,
                   <<Sample(IdA, DisplayB, KNorth)>>},
                  {DrawRight}, {WideWindow, NarrowWindow}, FALSE),
      \* failing fetches during one journey
      Environment({<<Sample(IdB, DisplayB, KNorth)>>},
                  {DrawStraight}, {WideWindow}, TRUE),
      \* a sample without position ahead of a well-formed one, and
      \* samples with speed 0 and with no speed
      Environment({<<Sample(IdA, DisplayB, KMissing),
                     Sample(IdB, DisplayA, KNorth)>>,
                   <<Sample(IdB, DisplayB, KNorthSlow),
                     Sample(IdA, DisplayA, KNorthNoSpeed)>>},
                  {DrawStraight}, {WideWindow}, FALSE) }

\* The environments of the runs checked for what eventually happens: a
\* start on the edge of the region next to a journey inside it, and one
\* journey with resizes and failing fetches.
FairEnvironments ==
    { Environment({<<Sample(IdA, DisplayA, KEdge)>>,
                   <<Sample(IdB, DisplayB, KNorth)>>},
                  {DrawStraight}, {WideWindow}, FALSE),
      Environment({<<Sample(IdB, DisplayB, KNorth)>>},
                  {DrawStraight}, {WideWindow, NarrowWindow}, TRUE) }

\* The draws for each sample of data: only a new id with a position
\* reaches generateCurveControl.
DrawsFor(data) ==
    {rnds \in [1..Len(data) -> env.draws \cup {DrawStraight}] :
        \A i \in 1..Len(data) :
            IF data[i].id \in DOMAIN planes \/ data[i].position = NoPosition
            THEN rnds[i] = DrawStraight
            ELSE rnds[i] \in env.draws}

-----------------------------------------------------------------------------
(* State machine                                                           *)

NoPlanes == [id \in {} |-> <<>>]

\* A handler call: its name, the snapshot it reconciled (fetchFlightData)
\* and the ids it removed (animate).
Call(op, data, removed) == [op |-> op, data |-> data, removed |-> removed]

\* main() up to its await of the first fetchFlightData(), in one of envs.
InitIn(envs) ==
    /\ env \in envs
    /\ now = 0
    /\ innerSize = WideWindow
    /\ canvasSize = WideWindow
    /\ planes = NoPlanes
    /\ isConnected = FALSE
    /\ overlayVisible = TRUE
    /\ overlayText = "Connecting..."
    /\ countText = 0
    /\ elements = NoPlanes
    /\ lastAnimateTime = 0
    /\ rafPending = 1
    /\ inFlight = 1
    /\ polling = FALSE
    /\ lastCall = Call("main", <<>>, {})
    /\ departed = {}

\* No function is called on its own while the program runs.
NoProbe == <<>>

Init == InitIn(Environments) /\ probe = NoProbe

\* An animate whose early return comes after the loop over planes: a
\* throttled callback still moves every plane.
AnimateThrottledAdvancing ==
    /\ rafPending > 0
    /\ now - lastAnimateTime < FRAME_INTERVAL
    /\ planes' = [id \in DOMAIN planes |->
                     AdvancePlane(planes[id], now, innerSize)]
    /\ lastCall' = Call("animate-throttled", <<>>, {})
    /\ UNCHANGED <<probe, env, departed, now, innerSize, canvasSize, isConnected,
                   overlayVisible, overlayText, countText, elements,
                   lastAnimateTime, rafPending, inFlight, polling>>

\* animate(currentTime) returning early: elapsed < FRAME_INTERVAL.
AnimateThrottled ==
    /\ rafPending > 0
    /\ now - lastAnimateTime < FRAME_INTERVAL
    /\ lastCall' = Call("animate-throttled", <<>>, {})
    /\ UNCHANGED <<probe, env, departed, now, innerSize, canvasSize, planes, isConnected,
                   overlayVisible, overlayText, countText, elements,
                   lastAnimateTime, rafPending, inFlight, polling>>

\* A frame that forgets removePlaneElement: the element of a removed plane
\* stays in #planes.
FrameWritesKeepingElements(advanced, toRemove) ==
    /\ planes' = [id \in DOMAIN advanced \ toRemove |-> advanced[id]]
    /\ elements' =
         [id \in DOMAIN elements \cup (DOMAIN advanced \ toRemove) |->
             IF id \in DOMAIN advanced \ toRemove
             THEN PlaneElement(IF id \in DOMAIN elements
                               THEN elements[id] ELSE <<>>,
                               advanced[id])
             ELSE elements[id]]
    /\ countText' = Cardinality(DOMAIN advanced \ toRemove)
    /\ rafPending' =
         IF /\ ENABLE_TRAILS
            /\ DrawTrailsThrows(
                   [id \in DOMAIN advanced \ toRemove |-> advanced[id]],
                   innerSize)
         THEN rafPending - 1
         ELSE rafPending
    /\ lastCall' = Call("animate", <<>>, toRemove)
    /\ departed' = departed \cup toRemove

\* A frame that forgets planes.delete: the plane of a finished journey
\* stays in the registry, without its element.
FrameWritesKeepingPlanes(advanced, toRemove) ==
    /\ planes' = advanced
    /\ elements' =
         [id \in (DOMAIN elements \cup DOMAIN advanced) \ toRemove |->
             IF id \in DOMAIN advanced
             THEN PlaneElement(IF id \in DOMAIN elements
                               THEN elements[id] ELSE <<>>,
                               advanced[id])
             ELSE elements[id]]
    /\ countText' = Cardinality(DOMAIN advanced)
    /\ rafPending' =
         IF ENABLE_TRAILS /\ DrawTrailsThrows(advanced, innerSize)
         THEN rafPending - 1
         ELSE rafPending
    /\ lastCall' = Call("animate", <<>>, toRemove)
    /\ departed' = departed \cup toRemove

\* The writes of a frame after the loop over planes: the elements as
\* updated in the loop, the removals, the count and the trails, whose
\* TypeError ends animate before it requests the next frame.
FrameWrites(advanced, toRemove) ==
    /\ planes' = [id \in DOMAIN advanced \ toRemove |-> advanced[id]]
    /\ elements' =
         [id \in (DOMAIN elements \cup DOMAIN advanced) \ toRemove |->
             IF id \in DOMAIN advanced
             THEN PlaneElement(IF id \in DOMAIN elements
                               THEN elements[id] ELSE <<>>,
                               advanced[id])
             ELSE elements[id]]
    /\ countText' = Cardinality(DOMAIN advanced \ toRemove)
    /\ rafPending' =
         IF /\ ENABLE_TRAILS
            /\ DrawTrailsThrows(
                   [id \in DOMAIN advanced \ toRemove |-> advanced[id]],
                   innerSize)
         THEN rafPending - 1
         ELSE rafPending
    /\ lastCall' = Call("animate", <<>>, toRemove)
    /\ departed' = departed \cup toRemove

\* Lines 365-377 for the plane states the loop produced.
FrameEnd(advanced) == FrameWrites(advanced, ToRemove(advanced))

\* animate(currentTime) running a frame.
AnimateFrame ==
    /\ rafPending > 0
    /\ now - lastAnimateTime >= FRAME_INTERVAL
    /\ lastAnimateTime' = now - ((now - lastAnimateTime) % FRAME_INTERVAL)
    /\ FrameEnd([id \in DOMAIN planes |->
                    AdvancePlane(planes[id], now, innerSize)])
    /\ UNCHANGED <<probe, env, now, innerSize, canvasSize, isConnected, overlayVisible,
                   overlayText, inFlight, polling>>

\* The writes of fetchFlightData after its loop ended with r: the overlay
\* hidden at line 397 is shown again by the catch block when the loop threw.
ReconcileWrites(r) ==
    /\ planes' = r.planes
    /\ isConnected' = ~r.threw
    /\ overlayVisible' = IF r.threw THEN TRUE
                         ELSE IF ~isConnected THEN FALSE
                         ELSE overlayVisible
    /\ overlayText' = IF r.threw THEN "Reconnecting..." ELSE overlayText

\* fetchFlightData resuming with a snapshot whose status is not 'error'.
FetchSnapshot(data, rnds) ==
    /\ inFlight > 0
    /\ ReconcileWrites(Reconcile(planes, data, rnds, now, innerSize))
    /\ inFlight' = inFlight - 1
    /\ polling' = TRUE
    /\ lastCall' = Call("fetch-snapshot", data, {})
    /\ UNCHANGED <<probe, env, departed, now, innerSize, canvasSize, countText, elements,
                   lastAnimateTime, rafPending>>

\* An error-status branch that forgets showOverlay.
FetchErrorStatusSilent ==
    /\ env.faults
    /\ inFlight > 0
    /\ isConnected' = FALSE
    /\ inFlight' = inFlight - 1
    /\ polling' = TRUE
    /\ lastCall' = Call("fetch-error-status", <<>>, {})
    /\ UNCHANGED <<probe, env, departed, now, innerSize, canvasSize, planes,
                   overlayVisible, overlayText, countText, elements,
                   lastAnimateTime, rafPending>>

\* fetchFlightData resuming with data.status === 'error'.
FetchErrorStatus ==
    /\ env.faults
    /\ inFlight > 0
    /\ isConnected' = FALSE
    /\ overlayVisible' = IF isConnected THEN TRUE ELSE overlayVisible
    /\ overlayText' = IF isConnected THEN "Connection lost. Reconnecting..."
                      ELSE overlayText
    /\ inFlight' = inFlight - 1
    /\ polling' = TRUE
    /\ lastCall' = Call("fetch-error-status", <<>>, {})
    /\ UNCHANGED <<probe, env, departed, now, innerSize, canvasSize, planes, countText, elements,
                   lastAnimateTime, rafPending>>

\* A catch block that also empties the registry and the display.
FetchFailureClearing ==
    /\ env.faults
    /\ inFlight > 0
    /\ planes' = NoPlanes
    /\ elements' = NoPlanes
    /\ isConnected' = FALSE
    /\ overlayVisible' = IF isConnected THEN TRUE ELSE overlayVisible
    /\ overlayText' = IF isConnected THEN "Reconnecting..." ELSE overlayText
    /\ inFlight' = inFlight - 1
    /\ polling' = TRUE
    /\ lastCall' = Call("fetch-failure", <<>>, {})
    /\ UNCHANGED <<probe, env, departed, now, innerSize, canvasSize, countText,
                   lastAnimateTime, rafPending>>

\* fetchFlightData resuming in its catch block: the fetch was rejected,
\* the response was not OK, or its body was not JSON.
FetchFailure ==
    /\ env.faults
    /\ inFlight > 0
    /\ isConnected' = FALSE
    /\ overlayVisible' = IF isConnected THEN TRUE ELSE overlayVisible
    /\ overlayText' = IF isConnected THEN "Reconnecting..." ELSE overlayText
    /\ inFlight' = inFlight - 1
    /\ polling' = TRUE
    /\ lastCall' = Call("fetch-failure", <<>>, {})
    /\ UNCHANGED <<probe, env, departed, now, innerSize, canvasSize, planes, countText, elements,
                   lastAnimateTime, rafPending>>

\* A fetchFlightData that holds the frame loop back while it waits: the
\* registered frame callback is cancelled when the request is sent.
PollTimerBlocking ==
    /\ polling
    /\ inFlight < MaxInFlight
    /\ inFlight' = inFlight + 1
    /\ rafPending' = 0
    /\ lastCall' = Call("poll", <<>>, {})
    /\ UNCHANGED <<probe, env, departed, now, innerSize, canvasSize, planes, isConnected,
                   overlayVisible, overlayText, countText, elements,
                   lastAnimateTime, polling>>

\* The interval timer of main calls fetchFlightData, which awaits fetch().
PollTimer ==
    /\ polling
    /\ inFlight < MaxInFlight
    /\ inFlight' = inFlight + 1
    /\ lastCall' = Call("poll", <<>>, {})
    /\ UNCHANGED <<probe, env, departed, now, innerSize, canvasSize, planes, isConnected,
                   overlayVisible, overlayText, countText, elements,
                   lastAnimateTime, rafPending, polling>>

\* A resize that also starts every journey over.
ResizeRestarting(size) ==
    /\ size # innerSize
    /\ innerSize' = size
    /\ canvasSize' = size
    /\ planes' = [id \in DOMAIN planes |->
                     [planes[id] EXCEPT !.startTime = now]]
    /\ lastCall' = Call("resize", <<>>, {})
    /\ UNCHANGED <<probe, env, departed, now, isConnected, overlayVisible, overlayText,
                   countText, elements, lastAnimateTime, rafPending, inFlight,
                   polling>>

\* A resize that also sends every plane back to the start of its path.
ResizeRewinding(size) ==
    /\ size # innerSize
    /\ innerSize' = size
    /\ canvasSize' = size
    /\ planes' = [id \in DOMAIN planes |->
                     [planes[id] EXCEPT !.progress = R(0),
                                        !.lat = planes[id].startLat,
                                        !.lon = planes[id].startLon]]
    /\ lastCall' = Call("resize", <<>>, {})
    /\ UNCHANGED <<probe, env, departed, now, isConnected, overlayVisible, overlayText,
                   countText, elements, lastAnimateTime, rafPending, inFlight,
                   polling>>

\* The window is resized and the resize listener runs resizeCanvas.
Resize(size) ==
    /\ size # innerSize
    /\ innerSize' = size
    /\ canvasSize' = size
    /\ lastCall' = Call("resize", <<>>, {})
    /\ UNCHANGED <<probe, env, departed, now, planes, isConnected, overlayVisible, overlayText,
                   countText, elements, lastAnimateTime, rafPending, inFlight,
                   polling>>

\* Time passes while no handler runs.
ClockAdvance ==
    /\ now + ClockStep <= MaxTime
    /\ now' = now + ClockStep
    /\ lastCall' = Call("wait", <<>>, {})
    /\ UNCHANGED <<probe, env, departed, innerSize, canvasSize, planes, isConnected, overlayVisible,
                   overlayText, countText, elements, lastAnimateTime,
                   rafPending, inFlight, polling>>

Next ==
    \/ AnimateThrottled
    \/ AnimateFrame
    \/ \E data \in env.feed : \E rnds \in DrawsFor(data) :
           FetchSnapshot(data, rnds)
    \/ FetchErrorStatus
    \/ FetchFailure
    \/ PollTimer
    \/ \E size \in env.sizes : Resize(size)
    \/ ClockAdvance

Spec == Init /\ [][Next]_vars

\* A frame is due: animate, when called, runs a frame.  This is the
\* enabling condition of AnimateFrame, which always moves lastAnimateTime.
FrameDue == rafPending > 0 /\ now - lastAnimateTime >= FRAME_INTERVAL

\* Time keeps passing, and the browser keeps delivering frames while a
\* frame callback is registered: weak fairness of ClockAdvance and of
\* AnimateFrame, the latter with its enabling condition written out.
FairSpec ==
    /\ InitIn(FairEnvironments)
    /\ probe = NoProbe
    /\ [][Next]_vars
    /\ WF_vars(ClockAdvance)
    /\ ([]<>(~FrameDue) \/ []<><<AnimateFrame>>_vars)

-----------------------------------------------------------------------------
(* The functions of the program, each called on its own                    *)

\* The variables of the running program.
machine == <<now, innerSize, canvasSize, planes, isConnected,
             overlayVisible, overlayText, countText, elements,
             lastAnimateTime, rafPending, inFlight, polling, lastCall,
             departed, env>>

\* A call of fn with args that has not returned, and the call once it
\* returned result.
Asked(fn, args) ==
    [fn |-> fn, args |-> args, returned |-> FALSE, result |-> <<>>]

Answered(call, result) ==
    [call EXCEPT !.returned = TRUE, !.result = result]

\* Start coordinates: on the lower edge, inside the region, on the upper
\* edge, and beyond it.
StartLats == {R(0), R(8), R(24), R(40), R(48), R(60)}

StartLons == {R(0), R(12), R(48), R(84), R(90), R(96), R(108)}

\* The eight headings of the tables, and the absent one.
Headings ==
    {HeadingNorth, HeadingNE, HeadingEast, HeadingSE, HeadingSouth,
     HeadingSW, HeadingWest, HeadingNW, NoHeading}

\* Window sizes, among them one that is not in proportion to the region.
TallWindow == <<60, 100>>

WindowSizes == {WideWindow, NarrowWindow, TallWindow}

\* Coordinates strictly inside the region, next to its edges and between.
InnerLats == {R(1), Frac(17, 2), R(24), R(47)}

InnerLons == {R(1), Frac(25, 2), R(48), R(95)}

\* Screen coordinates as fractions of the window width or height, the
\* borders of the window included.
ScreenFractions == {R(0), Frac(1, 3), Frac(1, 2), R(1)}

\* The timestamps of the frames run on a plane created at time 0.
FrameTimes == {0, 50, 85, 100, 150, 170, 200, 250}

\* The frames whose trail is drawn: a sample and the timestamp of the
\* frame, at every tenth of the journey (200 for the first sample, 170 for
\* the second), just beyond the 60% threshold, and after the journey.
TrailFrames ==
    {<<Sample(IdA, DisplayA, KNorth), 20 * k>> : k \in 0..11}
    \cup {<<Sample(IdA, DisplayA, KNorth), 130>>}
    \cup {<<Sample(IdB, DisplayB, KNorthEast), 17 * k>> : k \in 0..11}

\* The speeds a sample reports: two positive ones, zero, and none.
Speeds == {R(111), R(222), R(0), Undefined}

\* The eight headings of the tables.
CompassHeadings ==
    {HeadingNorth, HeadingNE, HeadingEast, HeadingSE, HeadingSouth,
     HeadingSW, HeadingWest, HeadingNW}

\* Samples of new planes: every start of the inner grid, every heading of
\* the tables and every speed.
PlanSamples ==
    {Sample(IdA, DisplayA,
            [position |-> [lat |-> lat, lon |-> lon], heading |-> heading,
             velocity_mps |-> v]) :
        lat \in InnerLats, lon \in InnerLons, heading \in CompassHeadings,
        v \in Speeds}

\* Random draws for a curved path with the largest offsets, to the left
\* and to the right: Math.random() returns less than 1.
DrawLeftWide == <<R(0), Frac(9, 10), R(0)>>

DrawRightWide == <<Frac(6, 10), Frac(9, 10), Frac(9, 10)>>

PlanDraws == {DrawStraight, DrawLeft, DrawRight, DrawLeftWide, DrawRightWide}

\* Samples of long journeys, due north over 40 grid units: at 444/49 m/s
\* the journey lasts 49 frame intervals, at 444/51 m/s it lasts 51.
LongJourneys ==
    {Sample(IdA, DisplayA,
            [position |-> [lat |-> R(8), lon |-> R(48)],
             heading |-> HeadingNorth, velocity_mps |-> v]) :
        v \in {Frac(444, 49), Frac(444, 51)}}

\* The samples a lone frame is run on.
FrameSamples ==
    {Sample(IdA, DisplayA, KNorth), Sample(IdB, DisplayB, KNorthEast),
     Sample(IdB, DisplayB, KNorthSlow)}

FunctionInit ==
    /\ InitIn({Environment({<<>>}, {DrawStraight}, {WideWindow}, FALSE)})
    /\ \/ probe \in {Asked("calculateExitPoint", <<lat, lon, heading>>) :
                        lat \in StartLats, lon \in StartLons,
                        heading \in Headings}
       \/ probe \in {Asked("latLonToScreen", <<lat, lon, size>>) :
                        lat \in InnerLats, lon \in InnerLons,
                        size \in WindowSizes}
       \/ probe \in {Asked("screenToLatLon",
                           <<Mul(fx, R(size[1])), Mul(fy, R(size[2])), size>>) :
                        fx \in ScreenFractions, fy \in ScreenFractions,
                        size \in WindowSizes}
       \/ probe \in {Asked("animate", <<planeData, rnd, currentTime>>) :
                        planeData \in FrameSamples,
                        rnd \in {DrawStraight, DrawLeft},
                        currentTime \in FrameTimes}
       \/ probe \in {Asked("fetchFlightData", <<planeData, rnd>>) :
                        planeData \in PlanSamples, rnd \in PlanDraws}
       \/ probe \in {Answered(Asked("frames", <<planeData, rnd, 0>>),
                                NewPlane(planeData, rnd, 0, WideWindow)) :
                        planeData \in LongJourneys,
                        rnd \in {DrawStraight, DrawLeft}}
       \/ probe \in {Asked("drawTrails", <<frame[1], rnd, frame[2]>>) :
                        frame \in TrailFrames,
                        rnd \in {DrawStraight, DrawLeft}}

\* calculateExitPoint(startLat, startLon, headingDeg)
CallCalculateExitPoint ==
    /\ probe.fn = "calculateExitPoint"
    /\ ~probe.returned
    /\ probe' = Answered(probe, calculateExitPoint(probe.args[1],
                                                   probe.args[2],
                                                   probe.args[3]))
    /\ UNCHANGED machine

\* The screen position of a point, and the point screenToLatLon gives for
\* that screen position.
GeoScreenGeo(screen, size) ==
    [screen |-> screen, geo |-> screenToLatLon(screen.x, screen.y, size)]

\* latLonToScreen(lat, lon) followed by screenToLatLon on its result.
CallLatLonToScreen ==
    /\ probe.fn = "latLonToScreen"
    /\ ~probe.returned
    /\ probe' = Answered(probe,
                    GeoScreenGeo(latLonToScreen(probe.args[1], probe.args[2],
                                                probe.args[3]),
                                 probe.args[3]))
    /\ UNCHANGED machine

\* The point of a screen position, and the screen position latLonToScreen
\* gives for that point.
ScreenGeoScreen(geo, size) ==
    [geo |-> geo, screen |-> latLonToScreen(geo.lat, geo.lon, size)]

\* screenToLatLon(x, y) followed by latLonToScreen on its result.
CallScreenToLatLon ==
    /\ probe.fn = "screenToLatLon"
    /\ ~probe.returned
    /\ probe' = Answered(probe,
                    ScreenGeoScreen(screenToLatLon(probe.args[1],
                                                   probe.args[2],
                                                   probe.args[3]),
                                    probe.args[3]))
    /\ UNCHANGED machine

\* The loop body of animate(currentTime) for one plane, created from a
\* sample at time 0.
CallAnimatePlane ==
    /\ probe.fn = "animate"
    /\ ~probe.returned
    /\ probe' = Answered(probe,
                    AdvancePlane(NewPlane(probe.args[1], probe.args[2], 0,
                                          innerSize),
                                 probe.args[3], innerSize))
    /\ UNCHANGED machine

\* The stroke drawTrails draws for one plane: the progress it reads, the
\* progress the trail starts at, and the two ends of the stroke on screen
\* (moveTo, and the last lineTo, which is the plane's screen position).
DrawnTrail(state, size) ==
    [progress |-> IF Falsy(state.progress) THEN R(0) ELSE state.progress,
     trailStartProgress |-> TrailStartProgress(state),
     from |-> TrailStart(state, size),
     to |-> state.screenPos,
     pathStart |-> latLonToScreen(state.startLat, state.startLon, size)]

\* The loop body of drawTrails() for one plane, created from a sample at
\* time 0 and advanced by a frame at currentTime.
CallDrawTrails ==
    /\ probe.fn = "drawTrails"
    /\ ~probe.returned
    /\ probe' = Answered(probe,
                    DrawnTrail(AdvancePlane(NewPlane(probe.args[1],
                                                     probe.args[2], 0,
                                                     innerSize),
                                            probe.args[3], innerSize),
                               innerSize))
    /\ UNCHANGED machine

\* The new-plane branch of fetchFlightData for one sample (lines 412-459),
\* at time 0.
CallPlanTrajectory ==
    /\ probe.fn = "fetchFlightData"
    /\ ~probe.returned
    /\ probe' = Answered(probe,
                    NewPlane(probe.args[1], probe.args[2], 0, innerSize))
    /\ UNCHANGED machine

\* One more frame of a journey: the loop body of animate for a plane,
\* FRAME_INTERVAL after the frame before, as long as the plane is tracked.
\* The call holds the plane as created at time 0, or as the last frame
\* left it, and the timestamp of that frame.
CallNextFrame ==
    /\ probe.fn = "frames"
    /\ ~Complete(probe.result)
    /\ probe' = [probe EXCEPT
                    !.args[3] = @ + FRAME_INTERVAL,
                    !.result = AdvancePlane(probe.result,
                                            probe.args[3] + FRAME_INTERVAL,
                                            innerSize)]
    /\ UNCHANGED machine

FunctionNext ==
    \/ CallNextFrame
    \/ CallPlanTrajectory
    \/ CallCalculateExitPoint
    \/ CallLatLonToScreen
    \/ CallScreenToLatLon
    \/ CallAnimatePlane
    \/ CallDrawTrails

FunctionSpec == FunctionInit /\ [][FunctionNext]_vars

-----------------------------------------------------------------------------
(* Properties                                                              *)

\* The step just taken was fetchFlightData reconciling a snapshot; the
\* snapshot is lastCall'.data.
ReconcileStep == lastCall'.op = "fetch-snapshot"

\* The step just taken was animate running a frame.
FrameStep == lastCall'.op = "animate"

\* The trajectory of a plane state: start point, exit point, curve
\* control point, start time and duration.
Trajectory(state) ==
    <<state.startLat, state.startLon, state.endLat, state.endLon,
      state.curveControl, state.startTime, state.duration>>

\* A plane state without its display attributes.
Undisplayed(state) ==
    [state EXCEPT !.callsign = "", !.country = "", !.color = ""]

\* C1: reconciling a snapshot sample whose id is already tracked never
\* changes that plane's start point, exit point, curve control point,
\* startTime, duration or progress; nothing but its display attributes
\* (callsign, country, color) differs after the reconcile.
C1_ReconcileKeepsTrajectory ==
    [][ReconcileStep =>
        \A id \in DOMAIN planes \cap SampleIds(lastCall'.data) :
            /\ id \in DOMAIN planes'
            /\ Trajectory(planes'[id]) = Trajectory(planes[id])
            /\ planes'[id].progress = planes[id].progress
            /\ Undisplayed(planes'[id]) = Undisplayed(planes[id])]_vars

\* C1 witness: a snapshot has just been reconciled whose sample for a
\* plane in mid-journey carries another position, callsign and color than
\* the plane was created from.
C1_Witness ==
    /\ lastCall.op = "fetch-snapshot"
    /\ \E i \in 1..Len(lastCall.data) :
           LET planeData == lastCall.data[i]
           IN  /\ planeData.id \in DOMAIN planes
               /\ planeData.position # NoPosition
               /\ planeData.position.lat # planes[planeData.id].startLat
               /\ planeData.color # planes[planeData.id].color
               /\ planeData.callsign = planes[planeData.id].callsign
               /\ Gt(planes[planeData.id].progress, R(0))
               /\ planes[planeData.id].curveControl # NoCurve

\* C2: a reconcile never removes a plane: an id that is tracked and absent
\* from the snapshot is still tracked after the reconcile, its state
\* unchanged.  An id leaves the registry only in a frame, and only when
\* the time since its startTime has reached its duration.
C2_ReconcileNeverRemoves ==
    [][/\ ReconcileStep =>
            /\ DOMAIN planes \subseteq DOMAIN planes'
            /\ \A id \in DOMAIN planes \ SampleIds(lastCall'.data) :
                   planes'[id] = planes[id]
       /\ \A id \in DOMAIN planes \ DOMAIN planes' :
            /\ FrameStep
            /\ Ge(R(now - planes[id].startTime), planes[id].duration)]_vars

\* C2 witness: a snapshot that does not mention a plane in mid-journey has
\* just been reconciled, and it inserted another plane.
C2_Witness ==
    /\ lastCall.op = "fetch-snapshot"
    /\ \E id \in DOMAIN planes \ SampleIds(lastCall.data) :
           /\ Gt(planes[id].progress, R(0))
           /\ \E other \in SampleIds(lastCall.data) \cap DOMAIN planes :
                  planes[other].startTime = now

\* C3: a plane whose progress reaches 1 in a frame is removed in that same
\* frame: after every executed frame each tracked plane is Active, with a
\* progress in [0, 1).
C3_ActiveAfterFrame ==
    lastCall.op = "animate" =>
        \A id \in DOMAIN planes :
            /\ Ge(planes[id].progress, R(0))
            /\ Lt(planes[id].progress, R(1))

\* The last instant the clock of the model reaches.
LastInstant == (MaxTime \div ClockStep) * ClockStep

\* The journey of a plane ends, if it has an end, within the instants the
\* clock of the model reaches.
JourneyFits(state) ==
    \/ ~IsFinite(state.duration)
    \/ Le(Add(R(state.startTime), state.duration), R(LastInstant))

\* C4: once inserted, a plane always runs to completion: with frames
\* delivered and time advancing, every tracked plane is eventually removed,
\* whatever snapshots and fetch failures follow.
C4_EveryInsertedCompletes ==
    \A id \in {IdA, IdB} :
        (id \in DOMAIN planes /\ JourneyFits(planes[id]))
            ~> (id \notin DOMAIN planes)

\* C5: the progress of every tracked plane is within [0, 1] in every state
\* and never decreases from one state to the next, whichever of frame,
\* reconcile and resize the step is.
C5_ProgressBoundedMonotone ==
    [][/\ \A id \in DOMAIN planes' :
            /\ Ge(planes'[id].progress, R(0))
            /\ Le(planes'[id].progress, R(1))
       /\ \A id \in DOMAIN planes \cap DOMAIN planes' :
            Ge(planes'[id].progress, planes[id].progress)]_vars

\* C6: from its insertion to its removal, the start point, exit point,
\* curve control point, startTime and duration of a plane stay what they
\* were at creation: no step, frame, reconcile or resize, changes them.
C6_TrajectoryFixed ==
    [][\A id \in DOMAIN planes \cap DOMAIN planes' :
          Trajectory(planes'[id]) = Trajectory(planes[id])]_vars

\* C6 witness: the window has just been resized under a plane on a curved
\* path that frames have advanced and a reconcile has renamed.
C6_Witness ==
    /\ lastCall.op = "resize"
    /\ \E id \in DOMAIN planes :
           /\ Gt(planes[id].progress, R(0))
           /\ planes[id].curveControl # NoCurve
           /\ planes[id].color = DisplayA.color
           /\ planes[id].callsign = DisplayB.callsign
           /\ planes[id].startScreenPos # latLonToScreen(planes[id].startLat,
                                              planes[id].startLon, innerSize)

\* C7: in an executed frame at timestamp now, the progress of a plane is
\* min((now - startTime) / duration, 1).  For a duration n/m and an elapsed
\* time e: below the duration the plane stays with progress e*m/n, and at
\* or beyond it the progress is 1, which the frame answers by removing the
\* plane.  (A duration that is not a number gives a progress that is not a
\* number, an infinite one gives 0.)
C7_ProgressFormula ==
    [][FrameStep =>
        \A id \in DOMAIN planes :
            LET d == planes[id].duration
                e == now - planes[id].startTime
            IN  IF IsNaN(d)
                THEN id \in DOMAIN planes' /\ IsNaN(planes'[id].progress)
                ELSE IF ~IsFinite(d)
                THEN id \in DOMAIN planes' /\ planes'[id].progress = R(0)
                ELSE IF e * d[2] >= d[1]
                THEN id \notin DOMAIN planes' /\ id \in lastCall'.removed
                ELSE /\ id \in DOMAIN planes'
                     /\ id \notin lastCall'.removed
                     /\ planes'[id].progress = Frac(e * d[2], d[1])]_vars

\* C7 witness: a frame has just removed a plane whose journey was over and
\* left another one part of the way, inserted after the clock started.
C7_Witness ==
    /\ lastCall.op = "animate"
    /\ lastCall.removed # {}
    /\ \E id \in DOMAIN planes :
           /\ planes[id].startTime > 0
           /\ Gt(planes[id].progress, R(0))
           /\ Lt(planes[id].progress, R(1))

\* Sample j of data, reconciled into registry m, is one whose position the
\* loop reads and does not find: its id is neither tracked in m nor
\* inserted by an earlier sample.
Unreadable(m, data, j) ==
    /\ data[j].id \notin DOMAIN m
    /\ data[j].position = NoPosition
    /\ \A k \in 1..(j - 1) :
           data[k].id # data[j].id \/ data[k].position = NoPosition

\* The loop over data reaches and reconciles sample i.
Reconciled(m, data, i) == \A j \in 1..(i - 1) : ~Unreadable(m, data, j)

\* C8: reconciling a sample whose id is not tracked inserts one plane for
\* that id with progress 0, startTime equal to the current clock, start
\* point equal to the sample position and current position equal to the
\* start point; the registry holds one plane per id, under that id, and a
\* reconcile adds no other ids than those of such samples.
C8_NewIdInserted ==
    [][ReconcileStep =>
        /\ \A i \in 1..Len(lastCall'.data) :
               LET planeData == lastCall'.data[i]
               IN  (/\ Reconciled(planes, lastCall'.data, i)
                    /\ planeData.id \notin DOMAIN planes
                    /\ planeData.position # NoPosition
                    /\ \A k \in 1..(i - 1) :
                           lastCall'.data[k].id # planeData.id)
                   => /\ planeData.id \in DOMAIN planes'
                      /\ planes'[planeData.id].id = planeData.id
                      /\ planes'[planeData.id].progress = R(0)
                      /\ planes'[planeData.id].startTime = now
                      /\ planes'[planeData.id].startLat = planeData.position.lat
                      /\ planes'[planeData.id].startLon = planeData.position.lon
                      /\ planes'[planeData.id].lat = planeData.position.lat
                      /\ planes'[planeData.id].lon = planeData.position.lon
        /\ DOMAIN planes' =
               DOMAIN planes \cup
                   {lastCall'.data[i].id :
                       i \in {j \in 1..Len(lastCall'.data) :
                                 /\ Reconciled(planes, lastCall'.data, j)
                                 /\ lastCall'.data[j].position # NoPosition}}
        /\ \A id \in DOMAIN planes' : planes'[id].id = id]_vars

\* C8 witness: a reconcile after the clock started has just inserted a
\* plane on a curved path, not yet moved by any frame.
C8_Witness ==
    /\ lastCall.op = "fetch-snapshot"
    /\ now > 0
    /\ \E i \in 1..Len(lastCall.data) :
           /\ lastCall.data[i].id \in DOMAIN planes
           /\ planes[lastCall.data[i].id].startTime = now
           /\ planes[lastCall.data[i].id].progress = R(0)
           /\ planes[lastCall.data[i].id].curveControl # NoCurve
           /\ Len(planes[lastCall.data[i].id].trailPoints) = 1

\* The last sample for its id among those the loop reconciles.
LastReconciled(m, data, i) ==
    /\ Reconciled(m, data, i)
    /\ \A k \in (i + 1)..Len(data) :
           data[k].id # data[i].id \/ ~Reconciled(m, data, k)

\* C9 as stated: reconciling a sample for an already-tracked id overwrites
\* the plane's display attributes, label (callsign, country) and color,
\* with the values of the sample.
C9_DisplayOverwritten ==
    [][ReconcileStep =>
        \A i \in 1..Len(lastCall'.data) :
            LET planeData == lastCall'.data[i]
            IN  (planeData.id \in DOMAIN planes
                 /\ LastReconciled(planes, lastCall'.data, i))
                => /\ planes'[planeData.id].callsign = planeData.callsign
                   /\ planes'[planeData.id].country = planeData.country
                   /\ planes'[planeData.id].color = planeData.color]_vars

\* C9 amended: reconciling a sample for an already-tracked id overwrites
\* the plane's callsign and country with the values of the sample; the
\* color stays the one the plane was created with.
C9_LabelOverwrittenColorKept ==
    [][ReconcileStep =>
        \A i \in 1..Len(lastCall'.data) :
            LET planeData == lastCall'.data[i]
            IN  (planeData.id \in DOMAIN planes
                 /\ LastReconciled(planes, lastCall'.data, i))
                => /\ planes'[planeData.id].callsign = planeData.callsign
                   /\ planes'[planeData.id].country = planeData.country
                   /\ planes'[planeData.id].color = planes[planeData.id].color]_vars

\* C9 witness: a reconcile has just given a tracked plane the callsign and
\* country of a sample whose color is not the plane's.
C9_Witness ==
    /\ lastCall.op = "fetch-snapshot"
    /\ \E i \in 1..Len(lastCall.data) :
           /\ lastCall.data[i].id \in DOMAIN planes
           /\ planes[lastCall.data[i].id].startTime < now
           /\ planes[lastCall.data[i].id].callsign = lastCall.data[i].callsign
           /\ planes[lastCall.data[i].id].country = lastCall.data[i].country
           /\ planes[lastCall.data[i].id].color # lastCall.data[i].color

\* C10: a snapshot sample without a position is skipped: an id whose
\* samples in the snapshot all lack a position is not inserted by the
\* reconcile, and if it is tracked its plane is left as it was.
C10_MissingPositionSkipped ==
    [][ReconcileStep =>
        \A i \in 1..Len(lastCall'.data) :
            LET id == lastCall'.data[i].id
            IN  (\A k \in 1..Len(lastCall'.data) :
                     lastCall'.data[k].id = id
                         => lastCall'.data[k].position = NoPosition)
                => IF id \in DOMAIN planes
                   THEN id \in DOMAIN planes' /\ planes'[id] = planes[id]
                   ELSE id \notin DOMAIN planes']_vars



\* C11: every trajectory a reconcile inserts has a finite exit point and
\* a finite, strictly positive duration, whatever the sample's position
\* and heading: no tracked plane carries an exit coordinate or a duration
\* that is not a valid number.
C11_TrajectoryFinite ==
    \A id \in DOMAIN planes :
        /\ IsFinite(planes[id].endLat)
        /\ IsFinite(planes[id].endLon)
        /\ IsFinite(planes[id].duration)
        /\ Gt(planes[id].duration, R(0))

\* A call of fn has returned.
Returned(fn) == probe.fn = fn /\ probe.returned

\* The sign of the northward and of the eastward component of a heading
\* in [0, 360): the quadrant of the heading.
NorthSign(heading) ==
    IF Lt(heading, R(90)) \/ Gt(heading, R(270)) THEN 1
    ELSE IF Gt(heading, R(90)) /\ Lt(heading, R(270)) THEN -1
    ELSE 0

EastSign(heading) ==
    IF Gt(heading, R(0)) /\ Lt(heading, R(180)) THEN 1
    ELSE IF Gt(heading, R(180)) THEN -1
    ELSE 0

\* The edges of the region that lie ahead of a start point on a heading.
ForwardEdges(startLat, startLon, heading) ==
    {e \in {"top", "bottom", "right", "left"} :
        \/ e = "top" /\ NorthSign(heading) = 1
                     /\ Lt(startLat, config.bounds.maxLat)
        \/ e = "bottom" /\ NorthSign(heading) = -1
                        /\ Gt(startLat, config.bounds.minLat)
        \/ e = "right" /\ EastSign(heading) = 1
                       /\ Lt(startLon, config.bounds.maxLon)
        \/ e = "left" /\ EastSign(heading) = -1
                      /\ Gt(startLon, config.bounds.minLon)}

\* C12: when no edge of the region lies ahead of the start (a start on
\* the boundary heading outward, or outside the region heading away),
\* calculateExitPoint returns a corner of the region on the side the
\* heading points to, at a finite distance, so that the journey has an end.
C12_CornerFallback ==
    (/\ Returned("calculateExitPoint")
     /\ probe.args[3] # NoHeading
     /\ ForwardEdges(probe.args[1], probe.args[2], probe.args[3]) = {})
    => /\ probe.result.lat \in {config.bounds.minLat, config.bounds.maxLat}
       /\ probe.result.lon \in {config.bounds.minLon, config.bounds.maxLon}
       /\ NorthSign(probe.args[3]) = 1
              => probe.result.lat = config.bounds.maxLat
       /\ NorthSign(probe.args[3]) = -1
              => probe.result.lat = config.bounds.minLat
       /\ EastSign(probe.args[3]) = 1
              => probe.result.lon = config.bounds.maxLon
       /\ EastSign(probe.args[3]) = -1
              => probe.result.lon = config.bounds.minLon
       /\ IsFinite(probe.result.distanceMeters)

\* The start point of a calculateExitPoint call lies strictly inside the
\* region, and its heading is a number.
InsideStart ==
    /\ Gt(probe.args[1], config.bounds.minLat)
    /\ Lt(probe.args[1], config.bounds.maxLat)
    /\ Gt(probe.args[2], config.bounds.minLon)
    /\ Lt(probe.args[2], config.bounds.maxLon)
    /\ probe.args[3] # NoHeading

\* The sign of x - y.
SignOfDifference(x, y) == IF Gt(x, y) THEN 1 ELSE IF Lt(x, y) THEN -1 ELSE 0

\* C13: for a start strictly inside the region and any heading, the exit
\* point calculateExitPoint returns has its latitude or its longitude on
\* an edge of the region, and on each axis exit - start has the sign of
\* the heading's component on that axis.
C13_ExitOnEdgeAlongHeading ==
    (Returned("calculateExitPoint") /\ InsideStart)
    => /\ \/ probe.result.lat \in {config.bounds.minLat, config.bounds.maxLat}
          \/ probe.result.lon \in {config.bounds.minLon, config.bounds.maxLon}
       /\ SignOfDifference(probe.result.lat, probe.args[1])
              = NorthSign(probe.args[3])
       /\ SignOfDifference(probe.result.lon, probe.args[2])
              = EastSign(probe.args[3])

\* C13 witness: calculateExitPoint has returned, for a start strictly
\* inside the region on a heading to the south-west, an exit point on the
\* left edge short of the lower edge.
C13_Witness ==
    /\ Returned("calculateExitPoint")
    /\ InsideStart
    /\ probe.args[3] = HeadingSW
    /\ probe.result.lon = config.bounds.minLon
    /\ Gt(probe.result.lat, config.bounds.minLat)
    /\ Lt(probe.result.lat, probe.args[1])

\* The parametric distance from a start to the line of an edge along a
\* heading: (edge - start) / component.
EdgeDistance(e, startLat, startLon, heading) ==
    CASE e = "top" ->
             Div(Sub(config.bounds.maxLat, startLat), MathCosDeg(heading))
      [] e = "bottom" ->
             Div(Sub(config.bounds.minLat, startLat), MathCosDeg(heading))
      [] e = "right" ->
             Div(Sub(config.bounds.maxLon, startLon), MathSinDeg(heading))
      [] e = "left" ->
             Div(Sub(config.bounds.minLon, startLon), MathSinDeg(heading))

\* The distances to the edges ahead of the start of the call.
ForwardDistances ==
    {EdgeDistance(e, probe.args[1], probe.args[2], probe.args[3]) :
        e \in ForwardEdges(probe.args[1], probe.args[2], probe.args[3])}

\* A point of the closed bounding rectangle.
InRegion(pos) ==
    /\ Ge(pos.lat, config.bounds.minLat)
    /\ Le(pos.lat, config.bounds.maxLat)
    /\ Ge(pos.lon, config.bounds.minLon)
    /\ Le(pos.lon, config.bounds.maxLon)

\* C14: calculateExitPoint takes the smallest strictly positive distance
\* among the edges ahead: for a start strictly inside the region the exit
\* point is the start moved along the heading by the least of those
\* distances, the first boundary reached, and it lies within the closed
\* bounding rectangle.
C14_FirstBoundaryReached ==
    (Returned("calculateExitPoint") /\ InsideStart)
    => /\ \E t \in ForwardDistances :
              /\ Gt(t, R(0))
              /\ \A u \in ForwardDistances : Le(t, u)
              /\ probe.result.lat =
                     Add(probe.args[1], Mul(MathCosDeg(probe.args[3]), t))
              /\ probe.result.lon =
                     Add(probe.args[2], Mul(MathSinDeg(probe.args[3]), t))
       /\ InRegion(probe.result)

\* C14 witness: calculateExitPoint has returned for a start strictly
\* inside the region with two edges ahead at different distances, the
\* exit point on the nearer of them.
C14_Witness ==
    /\ Returned("calculateExitPoint")
    /\ InsideStart
    /\ Cardinality(ForwardDistances) = 2
    /\ probe.result.lat = config.bounds.maxLat
    /\ Lt(probe.result.lon, config.bounds.maxLon)
    /\ Gt(probe.result.lon, probe.args[2])

\* C15: when the heading's component on an axis is exactly zero, the two
\* edges of that axis are skipped and the exit point keeps the start
\* coordinate on that axis: from a start strictly inside the region, due
\* east leads to (start latitude, maxLon), due west to (start latitude,
\* minLon), due north to (maxLat, start longitude) and due south to
\* (minLat, start longitude), each at a finite distance above zero.
C15_AxisHeadingKeepsCoordinate ==
    (Returned("calculateExitPoint") /\ InsideStart)
    => /\ probe.args[3] = HeadingEast
              => /\ probe.result.lat = probe.args[1]
                 /\ probe.result.lon = config.bounds.maxLon
       /\ probe.args[3] = HeadingWest
              => /\ probe.result.lat = probe.args[1]
                 /\ probe.result.lon = config.bounds.minLon
       /\ probe.args[3] = HeadingNorth
              => /\ probe.result.lat = config.bounds.maxLat
                 /\ probe.result.lon = probe.args[2]
       /\ probe.args[3] = HeadingSouth
              => /\ probe.result.lat = config.bounds.minLat
                 /\ probe.result.lon = probe.args[2]
       /\ probe.args[3] \in {HeadingEast, HeadingWest, HeadingNorth,
                             HeadingSouth}
              => /\ IsFinite(probe.result.distanceMeters)
                 /\ Gt(probe.result.distanceMeters, R(0))

\* C15 witness: calculateExitPoint has returned (start latitude, maxLon)
\* for a start strictly inside the region heading due east.
C15_Witness ==
    /\ Returned("calculateExitPoint")
    /\ InsideStart
    /\ probe.args[3] = HeadingEast
    /\ MathCosDeg(probe.args[3]) = R(0)
    /\ probe.result.lat = probe.args[1]
    /\ probe.result.lon = config.bounds.maxLon

\* Sample i of data, reconciled into registry m, is the one a new plane
\* is created from: the loop reaches it, it has a position, and its id is
\* neither tracked in m nor that of an earlier sample.
Inserting(m, data, i) ==
    /\ Reconciled(m, data, i)
    /\ data[i].id \notin DOMAIN m
    /\ data[i].position # NoPosition
    /\ \A k \in 1..(i - 1) : data[k].id # data[i].id

\* The duration, in clock units, of a journey of distanceMeters at 200 m/s
\* under the speed multiplier 3.
DefaultSpeedDuration(distanceMeters) ==
    Mul(Mul(Div(Div(distanceMeters, R(200)), R(3)), R(1000)),
        R(TimeUnitsPerMs))

\* C16: a new sample whose speed is zero or missing is planned at the
\* default cruise speed of 200 m/s: the duration of its plane is the
\* distance to the exit point at 200 m/s, a finite and strictly positive
\* time whenever that distance is finite and positive, so the journey ends.
C16_DefaultSpeedForZeroOrMissing ==
    [][ReconcileStep =>
        \A i \in 1..Len(lastCall'.data) :
            LET planeData == lastCall'.data[i]
            IN  (/\ Inserting(planes, lastCall'.data, i)
                 /\ \/ planeData.velocity_mps = Undefined
                    \/ planeData.velocity_mps = R(0))
                => LET dist == calculateExitPoint(
                                   planeData.position.lat,
                                   planeData.position.lon,
                                   planeData.heading).distanceMeters
                   IN  /\ planes'[planeData.id].duration =
                              DefaultSpeedDuration(dist)
                       /\ (IsFinite(dist) /\ Gt(dist, R(0)))
                              => /\ IsFinite(planes'[planeData.id].duration)
                                 /\ Gt(planes'[planeData.id].duration, R(0))]_vars

\* C16 witness: a reconcile has just inserted one plane from a sample
\* with speed 0 and one from a sample with no speed, each with a finite
\* duration above zero that ends within the run.
C16_Witness ==
    /\ lastCall.op = "fetch-snapshot"
    /\ \E i, j \in 1..Len(lastCall.data) :
           /\ lastCall.data[i].velocity_mps = R(0)
           /\ lastCall.data[j].velocity_mps = Undefined
           /\ \A k \in {i, j} :
                  /\ lastCall.data[k].id \in DOMAIN planes
                  /\ planes[lastCall.data[k].id].startTime = now
                  /\ IsFinite(planes[lastCall.data[k].id].duration)
                  /\ Gt(planes[lastCall.data[k].id].duration, R(0))
                  /\ JourneyFits(planes[lastCall.data[k].id])

\* The point halfway between the start and the exit of a plane.
Midpoint(state) ==
    [lat |-> Div(Add(state.startLat, state.endLat), R(2)),
     lon |-> Div(Add(state.startLon, state.endLon), R(2))]

\* C17: for a plane with no curve control point, the position a frame
\* computes is start + (exit - start) * progress on both axes: the start
\* at progress 0, the exact midpoint of start and exit at progress 1/2,
\* and the exit at progress 1.
C17_LinearInterpolation ==
    (Returned("animate") /\ probe.result.curveControl = NoCurve)
    => LET state == probe.result
       IN  /\ state.lat =
                  Add(state.startLat,
                      Mul(Sub(state.endLat, state.startLat), state.progress))
           /\ state.lon =
                  Add(state.startLon,
                      Mul(Sub(state.endLon, state.startLon), state.progress))
           /\ state.progress = R(0)
                  => state.lat = state.startLat /\ state.lon = state.startLon
           /\ state.progress = Frac(1, 2)
                  => /\ state.lat = Midpoint(state).lat
                     /\ state.lon = Midpoint(state).lon
           /\ state.progress = R(1)
                  => state.lat = state.endLat /\ state.lon = state.endLon

\* C17 witness: the loop body of a frame has placed a plane on a straight
\* path that changes latitude and longitude at progress 1/2.
C17_Witness ==
    /\ Returned("animate")
    /\ probe.result.curveControl = NoCurve
    /\ probe.result.progress = Frac(1, 2)
    /\ probe.result.startLat # probe.result.endLat
    /\ probe.result.startLon # probe.result.endLon
    /\ probe.result.lat = Midpoint(probe.result).lat
    /\ probe.result.lon = Midpoint(probe.result).lon

\* C18: for every point strictly inside the region and every window size,
\* screenToLatLon gives back the point from the screen position
\* latLonToScreen gives for it, and latLonToScreen gives back every screen
\* position of the window from the point screenToLatLon gives for it; a
\* greater longitude has a greater x and a greater latitude a smaller y.
C18_ConversionRoundTrip ==
    /\ Returned("latLonToScreen")
           => /\ probe.result.geo =
                     [lat |-> probe.args[1], lon |-> probe.args[2]]
              /\ \A lat \in InnerLats, lon \in InnerLons :
                     /\ Lt(probe.args[2], lon)
                            => Lt(probe.result.screen.x,
                                  latLonToScreen(lat, lon, probe.args[3]).x)
                     /\ Lt(probe.args[1], lat)
                            => Gt(probe.result.screen.y,
                                  latLonToScreen(lat, lon, probe.args[3]).y)
    /\ Returned("screenToLatLon")
           => probe.result.screen = [x |-> probe.args[1], y |-> probe.args[2]]

\* C18 witness: a point strictly inside the region with a latitude off
\* the grid has been converted to a screen position inside a window that
\* is not in proportion to the region, and back to the same point.
C18_Witness ==
    /\ Returned("latLonToScreen")
    /\ probe.args[3] = TallWindow
    /\ probe.args[1] = Frac(17, 2)
    /\ Gt(probe.result.screen.x, R(0))
    /\ Lt(probe.result.screen.x, R(TallWindow[1]))
    /\ Gt(probe.result.screen.y, R(0))
    /\ Lt(probe.result.screen.y, R(TallWindow[2]))
    /\ probe.result.geo = [lat |-> probe.args[1], lon |-> probe.args[2]]

\* The instants the clock of the model reaches.
ClockInstants == {k * ClockStep : k \in 0..(MaxTime \div ClockStep)}

\* C19: a frame advances every tracked plane with the same timestamp:
\* there is one time T such that, after the frame, the progress of each
\* plane still tracked is min((T - startTime) / duration, 1), and each
\* plane the frame removed had reached its duration at T.
C19_OneTimestampPerFrame ==
    [][FrameStep =>
        \E T \in ClockInstants :
            \A id \in DOMAIN planes :
                LET state == planes[id]
                    ratio == Div(R(T - state.startTime), state.duration)
                IN  IF id \in DOMAIN planes'
                    THEN planes'[id].progress = MathMin(ratio, R(1))
                    ELSE Ge(ratio, R(1))]_vars

\* C19 witness: a frame has just advanced two planes inserted at
\* different times, both part of the way and at different progress.
C19_Witness ==
    /\ lastCall.op = "animate"
    /\ \E a, b \in DOMAIN planes :
           /\ planes[a].startTime < planes[b].startTime
           /\ planes[a].duration # planes[b].duration
           /\ Gt(planes[b].progress, R(0))
           /\ Lt(planes[a].progress, R(1))
           /\ planes[a].progress # planes[b].progress

\* The step just taken was fetchFlightData ending without a snapshot: the
\* fetch failed, the response was not OK, or its status was 'error'.
FetchFaultStep == lastCall'.op \in {"fetch-failure", "fetch-error-status"}

C21_FrameOutlivesBrokenPlane ==
    [][FrameStep =>
        /\ rafPending' = rafPending
        /\ \A id \in DOMAIN planes \cap DOMAIN planes' :
               IsFinite(planes[id].duration)
                   => planes'[id].progress =
                          MathMin(Div(R(now - planes[id].startTime),
                                      planes[id].duration), R(1))]_vars

\* The step just taken was the resize listener.
ResizeStep == lastCall'.op = "resize"

\* C22: a resize of the window clears the screen-space trail history of
\* every tracked plane: no trail point computed under the old window size
\* is left in trailPoints after the resize.
C22_ResizeClearsTrailPoints ==
    [][ResizeStep =>
        \A id \in DOMAIN planes' : planes'[id].trailPoints = <<>>]_vars

\* C23: a resize of the window restarts and alters no trajectory: the
\* same ids are tracked after it, each with the startTime, duration,
\* progress and geographic start, exit and control point it had before,
\* while the window and the canvas take the new size.
C23_ResizeKeepsTrajectories ==
    [][ResizeStep =>
        /\ DOMAIN planes' = DOMAIN planes
        /\ \A id \in DOMAIN planes :
               /\ Trajectory(planes'[id]) = Trajectory(planes[id])
               /\ planes'[id].progress = planes[id].progress
               /\ planes'[id].lat = planes[id].lat
               /\ planes'[id].lon = planes[id].lon
        /\ innerSize' # innerSize
        /\ canvasSize' = innerSize']_vars

\* C23 witness: the window has just been resized to the narrow size
\* under a plane that frames have carried part of its way.
C23_Witness ==
    /\ lastCall.op = "resize"
    /\ innerSize = NarrowWindow
    /\ canvasSize = NarrowWindow
    /\ \E id \in DOMAIN planes :
           /\ Gt(planes[id].progress, R(0))
           /\ Lt(planes[id].progress, R(1))
           /\ planes[id].startTime < now
           /\ Len(planes[id].trailPoints) >= 2

\* The fade-in threshold of drawTrails: 60% of the journey.
FadeThreshold == Frac(6, 10)

\* C24 as stated: no trail is drawn for a plane while its progress is at
\* or below the 60% threshold: the stroke is empty, it starts where it
\* ends, and a trail is visible only once progress exceeds 0.6.
C24_NoTrailBelowThreshold ==
    (Returned("drawTrails") /\ Le(probe.result.progress, FadeThreshold))
    => /\ probe.result.trailStartProgress = probe.result.progress
       /\ probe.result.from = probe.result.to

\* C24 amended: while progress is at or below the 60% threshold the trail
\* is drawn over the whole path flown so far, from the start point of the
\* journey to the plane; once progress exceeds 0.6 the start of the trail
\* leaves the start point and the trail covers only the later part of the
\* path flown.
C24_TrailFadesFromBackAfterThreshold ==
    Returned("drawTrails")
    => IF Le(probe.result.progress, FadeThreshold)
       THEN /\ probe.result.trailStartProgress = R(0)
            /\ probe.result.from = probe.result.pathStart
            /\ Gt(probe.result.progress, R(0))
                   => probe.result.from # probe.result.to
       ELSE /\ Gt(probe.result.trailStartProgress, R(0))
            /\ probe.result.from # probe.result.pathStart
            /\ Lt(probe.result.progress, R(1))
                   => /\ Lt(probe.result.trailStartProgress,
                            probe.result.progress)
                      /\ probe.result.from # probe.result.to

\* C24 witness: drawTrails has drawn, for a plane at 3/10 of its journey,
\* a stroke from the start point of the journey to the plane.
C24_Witness ==
    /\ Returned("drawTrails")
    /\ probe.result.progress = Frac(3, 10)
    /\ probe.result.trailStartProgress = R(0)
    /\ probe.result.from = probe.result.pathStart
    /\ probe.result.from # probe.result.to

\* The tenths of a journey.
Tenths == {Frac(k, 10) : k \in 0..10}

\* C25: the progress at which the trail starts is 0 when progress is at
\* the threshold 0.6 and equals progress when progress is 1; for every
\* progress from 0 to 1 it is at least 0 and at most progress, and it
\* does not decrease as progress grows.
C25_TrailStartProgressShape ==
    Returned("drawTrails")
    => /\ probe.result.progress = FadeThreshold
              => probe.result.trailStartProgress = R(0)
       /\ probe.result.progress = R(1)
              => probe.result.trailStartProgress = R(1)
       /\ Le(R(0), probe.result.progress)
       /\ Le(probe.result.progress, R(1))
       /\ Le(R(0), probe.result.trailStartProgress)
       /\ Le(probe.result.trailStartProgress, probe.result.progress)
       /\ \A q \in Tenths :
              /\ Le(q, probe.result.progress)
                     => Le(FadedStart(q), probe.result.trailStartProgress)
              /\ Le(probe.result.progress, q)
                     => Le(probe.result.trailStartProgress, FadedStart(q))

\* C25 witness: drawTrails has drawn a plane at 8/10 of its journey, and
\* the trail starts at 4/10 of it.
C25_Witness ==
    /\ Returned("drawTrails")
    /\ probe.result.progress = Frac(8, 10)
    /\ probe.result.trailStartProgress = Frac(4, 10)

\* A step of fetchFlightData: the request is sent, or the call resumes
\* with a snapshot, an error status or a failure.
FetchStep ==
    lastCall'.op \in {"poll", "fetch-snapshot", "fetch-error-status",
                      "fetch-failure"}

\* C26: a snapshot fetch never blocks a frame.  No step of a fetch, sent
\* or answered, changes whether a frame callback is registered or when
\* the last frame ran, so a frame that is due stays due however long the
\* answer takes; and a frame that runs while a fetch is in flight leaves
\* the fetch in flight and advances every plane it keeps to the progress
\* of the frame's timestamp.
C26_FetchNeverBlocksFrame ==
    [][/\ FetchStep =>
           /\ rafPending' = rafPending
           /\ lastAnimateTime' = lastAnimateTime
           /\ now' = now
           /\ FrameDue' = FrameDue
       /\ (FrameStep /\ inFlight > 0) =>
           /\ inFlight' = inFlight
           /\ now - lastAnimateTime' < FRAME_INTERVAL
           /\ \A id \in DOMAIN planes' :
                  /\ id \in DOMAIN planes
                  /\ IsFinite(planes[id].duration)
                         => planes'[id].progress =
                                Div(R(now - planes[id].startTime),
                                    planes[id].duration)]_vars

\* C26 witness: a frame has run over two planes in mid-journey while two
\* fetches were in flight.
C26_Witness ==
    /\ lastCall.op = "animate"
    /\ inFlight = 2
    /\ Cardinality(DOMAIN planes) = 2
    /\ \A id \in DOMAIN planes :
           /\ Gt(planes[id].progress, R(0))
           /\ Lt(planes[id].progress, R(1))

\* C27: after every executed frame the ids that have a plane element are
\* the ids of the registry, and at no time is there an element for an id
\* that is not tracked.
C27_ElementsMatchRegistry ==
    /\ DOMAIN elements \subseteq DOMAIN planes
    /\ lastCall.op = "animate" => DOMAIN elements = DOMAIN planes

\* C27 witness: a frame has removed a plane and its element and has kept
\* another plane, which has the only element.
C27_Witness ==
    /\ lastCall.op = "animate"
    /\ lastCall.removed # {}
    /\ DOMAIN planes # {}
    /\ DOMAIN elements = DOMAIN planes
    /\ lastCall.removed \cap DOMAIN elements = {}

\* The samples of the feed for id that have a position.
PlannableSamples(id) ==
    UNION {{data[i] : i \in {k \in 1..Len(data) :
                                 /\ data[k].id = id
                                 /\ data[k].position # NoPosition}} :
           data \in env.feed}

\* C28: however frames, resizes and the responses of overlapping fetches
\* interleave, a tracked plane has the one trajectory that was planned
\* from a sample of the feed at the plane's startTime.  A plane enters the
\* registry only in a reconcile, with startTime the time of that
\* reconcile, and the response of a fetch, also one that was in flight
\* together with another and is answered after it, leaves the trajectory
\* of every plane that is already tracked as it is.
C28_PlannedOncePerLifetime ==
    /\ [](\A id \in DOMAIN planes :
             \E planeData \in PlannableSamples(id) :
                 \E rnd \in env.draws \cup {DrawStraight} :
                     Trajectory(NewPlane(planeData, rnd,
                                         planes[id].startTime, innerSize))
                         = Trajectory(planes[id]))
    /\ [][/\ \A id \in DOMAIN planes' \ DOMAIN planes :
                /\ ReconcileStep
                /\ planes'[id].startTime = now
          /\ ReconcileStep =>
                \A id \in DOMAIN planes :
                    /\ id \in DOMAIN planes'
                    /\ Trajectory(planes'[id]) = Trajectory(planes[id])
                    /\ planes'[id].trailPoints = planes[id].trailPoints]_vars

\* C28 witness: of two fetches in flight together, the first was answered
\* and one is still in flight; the answer carries, for a plane planned
\* earlier and in mid-journey, a sample with another position than the
\* plane started from.
C28_Witness ==
    /\ lastCall.op = "fetch-snapshot"
    /\ inFlight >= 1
    /\ \E i \in 1..Len(lastCall.data) :
           /\ lastCall.data[i].id \in DOMAIN planes
           /\ lastCall.data[i].position # NoPosition
           /\ planes[lastCall.data[i].id].startTime < now
           /\ Gt(planes[lastCall.data[i].id].progress, R(0))
           /\ lastCall.data[i].position.lat
                  # planes[lastCall.data[i].id].startLat

\* C29: a sample without a position does not keep the samples after it in
\* the same snapshot from being reconciled: every later sample that has a
\* position, the last for its id, leaves that id tracked with the
\* sample's callsign and country.
C29_MalformedSampleIsolated ==
    [][ReconcileStep =>
        \A i \in 1..Len(lastCall'.data) :
            LET planeData == lastCall'.data[i]
            IN  (/\ planeData.position # NoPosition
                 /\ \E j \in 1..(i - 1) :
                        lastCall'.data[j].position = NoPosition
                 /\ \A k \in (i + 1)..Len(lastCall'.data) :
                        lastCall'.data[k].id # planeData.id)
                => /\ planeData.id \in DOMAIN planes'
                   /\ planes'[planeData.id].callsign = planeData.callsign
                   /\ planes'[planeData.id].country = planeData.country]_vars

\* The step just taken was animate returning at its throttle.
ThrottledStep == lastCall'.op = "animate-throttled"

\* C30: a frame callback that arrives less than FRAME_INTERVAL after
\* lastAnimateTime is throttled: it changes no plane state, no registry
\* membership, no plane element and not lastAnimateTime, and leaves one
\* callback registered as before; a frame is executed only when at
\* least FRAME_INTERVAL has passed.
C30_ThrottledCallbackOnlyReschedules ==
    [][/\ ThrottledStep =>
           /\ now - lastAnimateTime < FRAME_INTERVAL
           /\ planes' = planes
           /\ elements' = elements
           /\ countText' = countText
           /\ lastAnimateTime' = lastAnimateTime
           /\ rafPending' = rafPending
           /\ rafPending' > 0
       /\ FrameStep => now - lastAnimateTime >= FRAME_INTERVAL]_vars

\* C30 witness: a callback has been throttled, half an interval after the
\* last frame, over a plane whose progress is still that of the last
\* frame and behind the clock.
C30_Witness ==
    /\ lastCall.op = "animate-throttled"
    /\ now - lastAnimateTime > 0
    /\ now - lastAnimateTime < FRAME_INTERVAL
    /\ \E id \in DOMAIN planes :
           /\ IsFinite(planes[id].duration)
           /\ Gt(planes[id].progress, R(0))
           /\ Lt(planes[id].progress,
                 Div(R(now - planes[id].startTime), planes[id].duration))
           /\ id \in DOMAIN elements

\* C31: every run of animate, throttled or executed, registers one next
\* frame callback: from the start of the loop by main on, one frame
\* callback is pending in every state.
C31_OnePendingCallback == rafPending = 1

\* The speed a journey is planned at: the reported one, or 200 m/s.
EffectiveSpeed(planeData) ==
    IF Falsy(planeData.velocity_mps) THEN R(200) ELSE planeData.velocity_mps

\* The distance, in grid units, that a duration in clock units stands for
\* at speed v, 111000 m per degree and a speed-up of 3.
GridFlown(duration, v) ==
    Mul(Div(Mul(Mul(Div(Div(duration, R(TimeUnitsPerMs)), R(1000)), R(3)), v),
            R(111000)),
        R(GridPerDegree))

\* The square of the equirectangular distance, in grid units, from the
\* start to the exit of a plane, longitude scaled by the cosine of the
\* start latitude.
SquaredGrid(state) ==
    Add(Mul(Sub(state.endLat, state.startLat),
            Sub(state.endLat, state.startLat)),
        Mul(Mul(Sub(state.endLon, state.startLon), CosLat(state.startLat)),
            Mul(Sub(state.endLon, state.startLon), CosLat(state.startLat))))

\* The resolution of the square root, in grid units.
SqrtStep == Frac(1, SqrtScale)

\* C32: the duration of a new trajectory is the distance from start to
\* exit in meters (equirectangular, longitude scaled by the cosine of the
\* start latitude, 111000 m per degree) divided by the effective speed and
\* by the speed-up factor 3, in milliseconds, up to the resolution of the
\* square root; for a start strictly inside the region it is finite and
\* strictly positive.
C32_DurationFromDistanceAndSpeed ==
    Returned("fetchFlightData")
    => /\ IsFinite(probe.result.duration)
       /\ Gt(probe.result.duration, R(0))
       /\ Le(Mul(GridFlown(probe.result.duration,
                              EffectiveSpeed(probe.args[1])),
                 GridFlown(probe.result.duration,
                              EffectiveSpeed(probe.args[1]))),
             SquaredGrid(probe.result))
       /\ Gt(Mul(Add(GridFlown(probe.result.duration,
                                  EffectiveSpeed(probe.args[1])), SqrtStep),
                 Add(GridFlown(probe.result.duration,
                                  EffectiveSpeed(probe.args[1])), SqrtStep)),
             SquaredGrid(probe.result))

\* C32 witness: a plane was planned from a sample strictly inside the
\* region that flies north-east at 111 m/s; it leaves through another
\* longitude than it started at, after a positive time.
C32_Witness ==
    /\ Returned("fetchFlightData")
    /\ probe.args[1].velocity_mps = R(111)
    /\ probe.args[1].heading = HeadingNE
    /\ probe.result.endLon # probe.result.startLon
    /\ probe.result.endLat # probe.result.startLat
    /\ Gt(probe.result.duration, R(0))

\* C33: once a frame has removed the plane of an id, the id is untracked,
\* and a later snapshot with a sample for it starts a fresh journey: a
\* plane with progress 0, at the position of that sample, with startTime
\* the time of the reconcile.  While that journey lasts, a further sample
\* for the id starts no other: the registry holds one plane per id, and
\* the journey under way keeps its trajectory.
C33_ReturningIdStartsAfresh ==
    [][/\ FrameStep => lastCall'.removed \cap DOMAIN planes' = {}
       /\ ReconcileStep =>
            /\ \A i \in 1..Len(lastCall'.data) :
                   LET planeData == lastCall'.data[i]
                   IN  (/\ planeData.id \in departed
                        /\ Inserting(planes, lastCall'.data, i))
                       => /\ planeData.id \in DOMAIN planes'
                          /\ planes'[planeData.id].id = planeData.id
                          /\ planes'[planeData.id].progress = R(0)
                          /\ planes'[planeData.id].startTime = now
                          /\ planes'[planeData.id].startLat
                                 = planeData.position.lat
                          /\ planes'[planeData.id].startLon
                                 = planeData.position.lon
                          /\ planes'[planeData.id].lat
                                 = planeData.position.lat
                          /\ planes'[planeData.id].lon
                                 = planeData.position.lon
                          /\ Len(planes'[planeData.id].trailPoints) = 1
            /\ \A id \in departed \cap DOMAIN planes :
                   /\ id \in DOMAIN planes'
                   /\ planes'[id].startTime = planes[id].startTime
                   /\ planes'[id].progress = planes[id].progress]_vars

\* C33 witness: a snapshot has just started a second journey for an id
\* whose first journey a frame had ended.
C33_Witness ==
    /\ lastCall.op = "fetch-snapshot"
    /\ \E id \in departed \cap DOMAIN planes :
           /\ planes[id].startTime = now
           /\ planes[id].progress = R(0)
           /\ id \notin DOMAIN elements

\* C34: from the initial overlay of main on, and through every sequence
\* of snapshots, error-status snapshots and failed fetches, the connection
\* overlay is visible exactly when isConnected is false.
C34_OverlayShownIffDisconnected == overlayVisible <=> ~isConnected

\* C34 witness: the connection was lost and has come back: a snapshot has
\* just been reconciled, the overlay is hidden, and it still carries the
\* text of the reconnect.
C34_Witness ==
    /\ lastCall.op = "fetch-snapshot"
    /\ isConnected
    /\ ~overlayVisible
    /\ overlayText \in {"Reconnecting...", "Connection lost. Reconnecting..."}

\* The parameter a little ahead of progress at which the curve is sampled
\* for the heading: progress + 0.01, and 1 where that would be more.
AheadOf(progress) ==
    IF Lt(Add(progress, Frac(1, 100)), R(1))
    THEN Add(progress, Frac(1, 100))
    ELSE R(1)

\* The point of the curve of a plane at parameter t.
CurvePoint(state, t) ==
    [lat |-> quadraticBezier(t, state.startLat, state.curveControl.lat,
                             state.endLat),
     lon |-> quadraticBezier(t, state.startLon, state.curveControl.lon,
                             state.endLon)]

\* C35: after a frame, the heading of a plane on a curved path is the
\* direction from its position at progress to the point of the curve at
\* min(progress + 0.01, 1), a parameter that is never more than 1; before
\* the end of the path, where the two points differ, it is not the heading
\* of the sample the plane was created from.
C35_CurvedHeadingFromTangent ==
    (Returned("animate") /\ probe.result.curveControl # NoCurve)
    => /\ Le(AheadOf(probe.result.progress), R(1))
       /\ probe.result.lat
              = CurvePoint(probe.result, probe.result.progress).lat
       /\ probe.result.lon
              = CurvePoint(probe.result, probe.result.progress).lon
       /\ probe.result.heading =
              Atan2Deg(Sub(CurvePoint(probe.result,
                                      AheadOf(probe.result.progress)).lon,
                           probe.result.lon),
                       Sub(CurvePoint(probe.result,
                                      AheadOf(probe.result.progress)).lat,
                           probe.result.lat))
       /\ Lt(probe.result.progress, R(1))
              => probe.result.heading # probe.args[1].heading

\* C35 witness: a frame has advanced a plane to the middle of a curved
\* path, and its heading is no longer the heading of its sample.
C35_Witness ==
    /\ Returned("animate")
    /\ probe.result.curveControl # NoCurve
    /\ probe.result.progress = Frac(1, 2)
    /\ probe.result.heading # probe.args[1].heading
    /\ probe.result.lon # probe.result.startLon

\* C36: a plane on a straight path (no curve control point) is created
\* with the heading of its sample and keeps that heading as long as it is
\* tracked: no frame and no reconcile of a later sample for its id, and no
\* other step, changes it.
C36_StraightHeadingKept ==
    [][/\ \A id \in DOMAIN planes \cap DOMAIN planes' :
              planes[id].curveControl = NoCurve
                  => /\ planes'[id].curveControl = NoCurve
                     /\ planes'[id].heading = planes[id].heading
       /\ ReconcileStep =>
              \A i \in 1..Len(lastCall'.data) :
                  (/\ Inserting(planes, lastCall'.data, i)
                   /\ planes'[lastCall'.data[i].id].curveControl = NoCurve)
                  => planes'[lastCall'.data[i].id].heading
                         = lastCall'.data[i].heading]_vars

\* C36 witness: a plane flying north on a straight path, advanced by
\* frames, has just been reconciled with a sample that reports another
\* heading, and still has its own.
C36_Witness ==
    /\ lastCall.op = "fetch-snapshot"
    /\ \E i \in 1..Len(lastCall.data) :
           /\ lastCall.data[i].id \in DOMAIN planes
           /\ planes[lastCall.data[i].id].curveControl = NoCurve
           /\ Gt(planes[lastCall.data[i].id].progress, R(0))
           /\ planes[lastCall.data[i].id].heading = HeadingNorth
           /\ lastCall.data[i].heading = HeadingNE

\* C37: on a curved path a frame puts the plane on the start point when
\* progress is 0 and on the exit point when progress is 1: the bezier
\* curve begins and ends where the straight line between start and exit
\* does, whatever the control point.
C37_CurveEndsAtStartAndExit ==
    (Returned("animate") /\ probe.result.curveControl # NoCurve)
    => /\ probe.result.progress = R(0)
              => /\ probe.result.lat = probe.result.startLat
                 /\ probe.result.lon = probe.result.startLon
                 /\ probe.result.lat = probe.args[1].position.lat
                 /\ probe.result.lon = probe.args[1].position.lon
       /\ probe.result.progress = R(1)
              => /\ probe.result.lat = probe.result.endLat
                 /\ probe.result.lon = probe.result.endLon
                 /\ probe.result.screenPos =
                        latLonToScreen(probe.result.endLat,
                                       probe.result.endLon, innerSize)

\* C37 witness: a frame has taken a plane to the end of a curved path
\* whose control point lies beside the line from start to exit; the plane
\* is on the exit point.
C37_Witness ==
    /\ Returned("animate")
    /\ probe.result.curveControl # NoCurve
    /\ probe.result.progress = R(1)
    /\ probe.result.curveControl.lon # probe.result.endLon
    /\ probe.result.lat = probe.result.endLat
    /\ probe.result.lon = probe.result.endLon

\* The displacement of the control point of a plane from the midpoint of
\* its start and exit, northward and eastward.
OffsetNorth(state) ==
    Sub(state.curveControl.lat,
        Div(Add(state.startLat, state.endLat), R(2)))

OffsetEast(state) ==
    Sub(state.curveControl.lon,
        Div(Add(state.startLon, state.endLon), R(2)))

\* The length from start to exit in latitude and longitude, as the square
\* root gives it.
GeographicLength(state) ==
    MathSqrt(Add(Mul(Sub(state.endLat, state.startLat),
                     Sub(state.endLat, state.startLat)),
                 Mul(Sub(state.endLon, state.startLon),
                     Sub(state.endLon, state.startLon))))

\* The displacement of the control point of a plane measured along the
\* direction a quarter turn to the right of heading: positive to the
\* right of the heading, negative to the left.
OffsetRightOf(state, heading) ==
    Sub(Mul(OffsetEast(state), MathCosDeg(heading)),
        Mul(OffsetNorth(state), MathSinDeg(heading)))

\* C38: a generated control point is the midpoint of start and exit
\* displaced at a right angle to the heading, by at least 10% and less
\* than 25% of the length from start to exit, to the right of the heading
\* when the third random draw is above 1/2 and to the left otherwise; when
\* the first draw is above 0.6 the path is straight and there is no
\* control point.
C38_ControlPointBesideMidpoint ==
    Returned("fetchFlightData")
    => IF Gt(probe.args[2][1], Frac(6, 10))
       THEN probe.result.curveControl = NoCurve
       ELSE /\ probe.result.curveControl # NoCurve
            /\ Add(Mul(OffsetNorth(probe.result),
                       MathCosDeg(probe.args[1].heading)),
                   Mul(OffsetEast(probe.result),
                       MathSinDeg(probe.args[1].heading))) = R(0)
            /\ IF Gt(probe.args[2][3], Frac(1, 2))
               THEN /\ Ge(OffsetRightOf(probe.result, probe.args[1].heading),
                          Mul(GeographicLength(probe.result), Frac(1, 10)))
                    /\ Lt(OffsetRightOf(probe.result, probe.args[1].heading),
                          Mul(GeographicLength(probe.result), Frac(1, 4)))
               ELSE /\ Le(OffsetRightOf(probe.result, probe.args[1].heading),
                          Mul(GeographicLength(probe.result), Frac(-1, 10)))
                    /\ Gt(OffsetRightOf(probe.result, probe.args[1].heading),
                          Mul(GeographicLength(probe.result), Frac(-1, 4)))

\* C38 witness: a plane heading north-east was planned with a control
\* point to the right of its path, south and east of the midpoint and
\* more than 20% of the length of the path away from it.
C38_Witness ==
    /\ Returned("fetchFlightData")
    /\ probe.args[1].heading = HeadingNE
    /\ probe.result.curveControl # NoCurve
    /\ Gt(probe.args[2][3], Frac(1, 2))
    /\ Gt(OffsetRightOf(probe.result, probe.args[1].heading),
          Mul(GeographicLength(probe.result), Frac(2, 10)))
    /\ Lt(OffsetNorth(probe.result), R(0))
    /\ Gt(OffsetEast(probe.result), R(0))

\* The step just taken was one more frame of a journey.
NextFrameStep == probe.fn = "frames" /\ probe'.args[3] # probe.args[3]

\* C39: the trailPoints of a tracked plane has at least 1 and at most 50
\* entries.  A frame appends the plane's screen position when progress is
\* more than 0.02 beyond the progress of the last point appended, dropping
\* the oldest point if that makes more than 50, and otherwise leaves the
\* list and the progress of the last point as they are.
C39_TrailPointsBounded ==
    /\ [](Returned("frames") =>
             /\ Len(probe.result.trailPoints) >= 1
             /\ Len(probe.result.trailPoints) <= 50)
    /\ [][NextFrameStep =>
             IF Gt(Sub(probe'.result.progress,
                       probe.result.lastTrailProgress), Frac(2, 100))
             THEN /\ probe'.result.trailPoints =
                        IF Len(probe.result.trailPoints) + 1 > 50
                        THEN Tail(Append(probe.result.trailPoints,
                                         probe'.result.screenPos))
                        ELSE Append(probe.result.trailPoints,
                                    probe'.result.screenPos)
                  /\ probe'.result.lastTrailProgress
                         = probe'.result.progress
             ELSE /\ probe'.result.trailPoints = probe.result.trailPoints
                  /\ probe'.result.lastTrailProgress
                         = probe.result.lastTrailProgress]_vars

\* C39 witness: the last frame of a journey of 49 frames, each of which
\* appended a point, has left 50 trail points.
C39_Witness ==
    /\ Returned("frames")
    /\ probe.result.progress = R(1)
    /\ Len(probe.result.trailPoints) = 50
    /\ probe.result.lastTrailProgress = R(1)

=============================================================================
